---- MODULE Spec2Model ----
(***************************************************************************)
(* Model of the attendance reconciliation of discord-leaderboard           *)
(* (SheetUpdate.gs): the four sheets, one run of updatePoints taken step   *)
(* by step, and isValidSubmission applied to drawn inputs.                 *)
(*                                                                         *)
(* Conventions.  A Date is its getTime() value in milliseconds, in one     *)
(* time zone without daylight-saving shifts.  A text value on which the    *)
(* code computes (email, anonymous answer) is a sequence of one-character  *)
(* strings; other texts are TLA+ strings.  A sheet is the sequence of its  *)
(* rows as getDataRange().getValues() returns them, header row first; a    *)
(* blank row is << >>.  Array and Map positions are 0-based as in the      *)
(* source, so events[idx] of the source is events[idx + 1] here.           *)
(***************************************************************************)
EXTENDS Integers, Sequences, FiniteSets, TLC

VARIABLES
    formSheet,        \* rows of sheet 'Form Responses 1'
    eventSheet,       \* rows of sheet 'Event Codes'
    pointsSheet,      \* rows of sheet 'Points System'
    recordSheet,      \* rows of sheet 'Points Record'
    pc,               \* position of the updatePoints run
    formResponses,    \* updatePoints: const formResponses
    events,           \* updatePoints: const events
    eventLookup,      \* updatePoints: const eventLookup
    eventPoints,      \* updatePoints: const eventPoints
    i,                \* processFormSubmissions: loop variable i
    members,          \* processFormSubmissions: Map members, in insertion order
    submittedEvents,  \* processFormSubmissions: Map netID -> Set of event indices
    credits,          \* history: one entry per submission that added points
    priorRecord,      \* history: recordSheet as it was when the run started
    call,             \* isValidSubmission applied alone: its arguments
    ret,              \* isValidSubmission applied alone: its result
    present,          \* names of the sheets the spreadsheet has
    error,            \* message of the Error that ended the run, or none
    stoppedAt,        \* history: pc when the run was ended by an Error or from outside
    runCount,         \* history: number of runs of updatePoints started
    firstOutput,      \* history: recordSheet at the end of the first run
    runs,             \* overlapping runs of updatePoints: position and locals of each
    overlapped,       \* history: a run started while another was under way
    triggers,         \* the project triggers of the script
    alerted,          \* createTimeTrigger showed its alert
    memberSheet,      \* legacy bot: rows of the member sheet SHEET_NAME
    handlers,         \* bots: position, interaction and fetched rows of each handler
    replies,          \* bots: what interaction.reply was given by each handler
    effects           \* history: sheet reads, sheet writes and files sent by handlers

sheetVars == <<formSheet, eventSheet, pointsSheet, recordSheet>>
runVars == <<pc, formResponses, events, eventLookup, eventPoints, i, members,
             submittedEvents, credits, priorRecord>>
callVars == <<call, ret>>
failVars == <<error, stoppedAt>>
rerunVars == <<runCount, firstOutput>>
overlapVars == <<runs, overlapped>>
triggerVars == <<triggers, alerted>>
botVars == <<memberSheet, handlers, replies, effects>>
scriptVars == <<runVars, callVars, present, failVars, rerunVars, overlapVars,
                triggerVars>>
miscVars == <<present, failVars, rerunVars, overlapVars, triggerVars, botVars>>
vars == <<sheetVars, runVars, callVars, miscVars>>

-----------------------------------------------------------------------------
(* CONFIG and the column / field tables *)

TOLERANCE_MINUTES == 30
DEFAULT_POINTS == 1
TRIGGER_FUNCTION_NAME == "updatePoints"

SHEET_NAMES ==
    [FORM_RESPONSES |-> "Form Responses 1",
     EVENT_CODES    |-> "Event Codes",
     POINTS_SYSTEM  |-> "Points System",
     POINTS_RECORD  |-> "Points Record"]

\* the message of the Error thrown when getSheetByName returns null
NotFound(name) == <<name, "sheet not found">>
NoError == << >>

\* the value null of validEventIndex / validEvent
null == -1

-----------------------------------------------------------------------------
(* Dates *)

MsPerMinute == 60 * 1000
MsPerHour == 60 * MsPerMinute
MsPerDay == 24 * MsPerHour

\* the time value of an Invalid Date, and of every number computed from it
NaN == 0 - 2000000000
\* a cell whose content does not parse as a date
NotADate == NaN - 1

\* new Date(value): a Date cell gives its own time, anything unparsable an
\* Invalid Date
NewDate(value) == IF value = NotADate \/ value = NaN THEN NaN ELSE value

\* Date.prototype.toDateString(): the calendar day, without the time of day;
\* 'Invalid Date' (here -1) for an Invalid Date
toDateStringSameForAll(d) == 0
toDateString(d) == IF d = NaN THEN -1 ELSE d \div MsPerDay
getHours(d) == IF d = NaN THEN NaN ELSE (d % MsPerDay) \div MsPerHour
getMinutes(d) == IF d = NaN THEN NaN ELSE (d % MsPerHour) \div MsPerMinute
\* Date.prototype.setHours(h, m, s, ms): same calendar day, time of day replaced
setHours(d, h, m, s, ms) ==
    IF d = NaN \/ h = NaN \/ m = NaN
    THEN NaN
    ELSE (d \div MsPerDay) * MsPerDay + h * MsPerHour + m * MsPerMinute + s * 1000 + ms

\* a + b of numbers
Plus(a, b) == IF a = NaN \/ b = NaN THEN NaN ELSE a + b

\* the comparisons >= and <= of line 279, as "a is not after b": false when
\* either side is NaN
WindowLess(a, b) == a # NaN /\ b # NaN /\ a < b
WindowLessEq(a, b) == a # NaN /\ b # NaN /\ a <= b

isValidSubmission(timestamp, eventDate, startTime, endTime, toleranceMinutes) ==
    LET tsDate == NewDate(timestamp)
        evDate == NewDate(eventDate)
    IN  IF toDateString(tsDate) # toDateString(evDate)
        THEN FALSE
        ELSE LET submissionTime == tsDate
                 startTimeDate == NewDate(startTime)
                 startDateTime ==
                     setHours(evDate, getHours(startTimeDate),
                              getMinutes(startTimeDate), 0, 0)
                 endTimeDate == NewDate(endTime)
                 endDateTime ==
                     setHours(evDate, getHours(endTimeDate),
                              getMinutes(endTimeDate), 0, 0)
                 toleranceMs == toleranceMinutes * 60 * 1000
                 allowedStart == Plus(startDateTime, 0 - toleranceMs)
                 allowedEnd == Plus(endDateTime, toleranceMs)
             IN  WindowLessEq(allowedStart, submissionTime)
                 /\ WindowLessEq(submissionTime, allowedEnd)

-----------------------------------------------------------------------------
(* Texts *)

\* A cell holding the Number 12345. Texts are sequences of one-character
\* strings, so this value is none.
NumberCell == <<"12345">>
NonTexts == {NumberCell}
\* typeof value === 'string'
IsString(value) == value \notin NonTexts

\* String.prototype.split('@')[0]: the text before the first '@', or all of it
RECURSIVE BeforeFirstAt(_)
BeforeFirstAt(s) ==
    IF s = << >> \/ Head(s) = "@"
    THEN << >>
    ELSE <<Head(s)>> \o BeforeFirstAt(Tail(s))

\* a netID that is the whole address
extractNetIDWhole(email) == email
extractNetID(email) == BeforeFirstAt(email)

\* the letters, in both cases
UpperLetters == <<"A", "B", "C", "D", "E", "F", "G", "H", "I", "J", "K", "L", "M",
                  "N", "O", "P", "Q", "R", "S", "T", "U", "V", "W", "X", "Y", "Z">>
LowerLetters == <<"a", "b", "c", "d", "e", "f", "g", "h", "i", "j", "k", "l", "m",
                  "n", "o", "p", "q", "r", "s", "t", "u", "v", "w", "x", "y", "z">>

LowerOf(c) ==
    IF \E k \in DOMAIN UpperLetters : UpperLetters[k] = c
    THEN LowerLetters[CHOOSE k \in DOMAIN UpperLetters : UpperLetters[k] = c]
    ELSE c

UpperOf(c) ==
    IF \E k \in DOMAIN LowerLetters : LowerLetters[k] = c
    THEN UpperLetters[CHOOSE k \in DOMAIN LowerLetters : LowerLetters[k] = c]
    ELSE c

toLowerCase(s) == [k \in 1..Len(s) |-> LowerOf(s[k])]

\* String.prototype.includes
includes(s, t) ==
    \E k \in 0..(Len(s) - Len(t)) : SubSeq(s, k + 1, k + Len(t)) = t

\* an anonymous field that looks for 'yes' without lower-casing the answer
AnonymousOfCaseSensitive(answer) ==
    answer # << >> /\ ~includes(answer, <<"y", "e", "s">>)

\* The anonymous member field (lines 358-359), as its truthiness: the value is
\* the empty text (falsy) for an empty answer and a boolean otherwise, and the
\* only reader (line 401) tests truthiness.
AnonymousOf(answer) ==
    answer # << >> /\ ~includes(toLowerCase(answer), <<"y", "e", "s">>)

-----------------------------------------------------------------------------
(* Data retrieval *)

\* getFormResponses after the sheet was found: every row but the header
getFormResponses(data) ==
    IF Len(data) <= 1
    THEN << >>
    ELSE [k \in 1..(Len(data) - 1) |->
             [timestamp |-> data[k + 1][1],
              email     |-> data[k + 1][2],
              eventCode |-> data[k + 1][3],
              firstName |-> data[k + 1][4],
              lastName  |-> data[k + 1][5],
              anonymous |-> data[k + 1][6]]]

\* a getEvents that takes the header row for an event
getEventsWithHeader(data) ==
    [k \in 1..Len(data) |->
        [date      |-> data[k][1],
         startTime |-> data[k][2],
         endTime   |-> data[k][3],
         eventName |-> data[k][4],
         eventType |-> data[k][5],
         eventCode |-> data[k][6]]]
getEvents(data) ==
    IF Len(data) <= 1
    THEN << >>
    ELSE [k \in 1..(Len(data) - 1) |->
             [date      |-> data[k + 1][1],
              startTime |-> data[k + 1][2],
              endTime   |-> data[k + 1][3],
              eventName |-> data[k + 1][4],
              eventType |-> data[k + 1][5],
              eventCode |-> data[k + 1][6]]]

\* Map.prototype.set on a Map held as a function
MapSet(m, k, v) == [x \in DOMAIN m \cup {k} |-> IF x = k THEN v ELSE m[x]]

EmptyMap == [x \in {} |-> 0]

\* createEventLookup: events.forEach pushes index (0-based) onto lookup[code]
RECURSIVE LookupFrom(_, _, _)
LookupFrom(evs, index, lookup) ==
    IF index >= Len(evs)
    THEN lookup
    ELSE LET code == evs[index + 1].eventCode
             had == IF code \in DOMAIN lookup THEN lookup[code] ELSE << >>
         IN  LookupFrom(evs, index + 1, MapSet(lookup, code, Append(had, index)))

\* a lookup whose set overwrites the list instead of pushing onto it
createEventLookupLastOnly(evs) ==
    [code \in {evs[k].eventCode : k \in DOMAIN evs} |->
        <<CHOOSE idx \in 0..(Len(evs) - 1) :
              /\ evs[idx + 1].eventCode = code
              /\ \A j \in 0..(Len(evs) - 1) : evs[j + 1].eventCode = code => j <= idx>>]
createEventLookup(evs) == LookupFrom(evs, 0, EmptyMap)

\* getEventPoints: pointsMap.set for every row from the second on
RECURSIVE PointsFrom(_, _, _)
PointsFrom(data, k, pointsMap) ==
    IF k > Len(data)
    THEN pointsMap
    ELSE PointsFrom(data, k + 1, MapSet(pointsMap, data[k][1], data[k][2]))

\* a map in which the first row of a type wins
getEventPointsFirstWins(data) ==
    [t \in {data[k][1] : k \in 2..Len(data)} |->
        data[CHOOSE k \in 2..Len(data) :
                 /\ data[k][1] = t
                 /\ \A q \in 2..Len(data) : data[q][1] = t => k <= q][2]]
getEventPoints(data) == PointsFrom(data, 2, EmptyMap)

-----------------------------------------------------------------------------
(* processFormSubmissions *)

\* formResponses[i] (line 305)
ResponseAtForward(responses, k) == responses[Len(responses) - k]
ResponseAt(responses, k) == responses[k + 1]

\* submittedEvents.has(netID) && submittedEvents.get(netID).has(idx)
NeverSubmitted(submitted, netID, idx) == FALSE
AlreadySubmitted(submitted, netID, idx) ==
    netID \in DOMAIN submitted /\ idx \in submitted[netID]

\* the loop "for (const idx of eventIndices)" from position k of eventIndices:
\* the index of the first event that is not yet submitted by netID and valid
\* for the response, or null
RECURSIVE FindLastValidEventIndex(_, _, _, _, _, _)
FindLastValidEventIndex(eventIndices, k, response, netID, evs, submitted) ==
    IF k > Len(eventIndices)
    THEN null
    ELSE LET idx == eventIndices[k]
             event == evs[idx + 1]
             later == FindLastValidEventIndex(eventIndices, k + 1, response, netID,
                                              evs, submitted)
         IN  IF later # null
             THEN later
             ELSE IF /\ ~(netID \in DOMAIN submitted /\ idx \in submitted[netID])
                     /\ isValidSubmission(response.timestamp, event.date,
                                          event.startTime, event.endTime,
                                          TOLERANCE_MINUTES)
                  THEN idx
                  ELSE null

RECURSIVE FindValidEventIndex(_, _, _, _, _, _)
FindValidEventIndex(eventIndices, k, response, netID, evs, submitted) ==
    IF k > Len(eventIndices)
    THEN null
    ELSE LET idx == eventIndices[k]
             event == evs[idx + 1]
         IN  IF AlreadySubmitted(submitted, netID, idx)
             THEN FindValidEventIndex(eventIndices, k + 1, response, netID, evs, submitted)
             ELSE IF isValidSubmission(response.timestamp, event.date,
                                       event.startTime, event.endTime,
                                       TOLERANCE_MINUTES)
                  THEN idx
                  ELSE FindValidEventIndex(eventIndices, k + 1, response, netID,
                                           evs, submitted)

\* eventPoints.get(eventType) || CONFIG.DEFAULT_POINTS: undefined and 0 are falsy
PointIncrementNoDefault(points, eventType) ==
    IF eventType \in DOMAIN points /\ points[eventType] # 0
    THEN points[eventType]
    ELSE 0
PointIncrement(points, eventType) ==
    IF eventType \in DOMAIN points /\ points[eventType] # 0
    THEN points[eventType]
    ELSE DEFAULT_POINTS

\* submittedEvents.get(netID).add(idx), after the set was created if missing
AddSubmitted(submitted, netID, idx) ==
    MapSet(submitted, netID,
           (IF netID \in DOMAIN submitted THEN submitted[netID] ELSE {}) \cup {idx})

\* members.has(netID); members is held as the sequence of its entries
MembersHas(ms, netID) == \E k \in 1..Len(ms) : ms[k].netID = netID

\* a new member that starts without the points of its first credit
NewMemberWithoutPoints(netID, response, pointIncrement) ==
    [netID      |-> netID,
     firstName  |-> response.firstName,
     lastName   |-> response.lastName,
     anonymous  |-> AnonymousOf(response.anonymous),
     points     |-> 0,
     lastUpdate |-> response.timestamp]

\* new member (lines 355-362)
NewMember(netID, response, pointIncrement) ==
    [netID      |-> netID,
     firstName  |-> response.firstName,
     lastName   |-> response.lastName,
     anonymous  |-> AnonymousOf(response.anonymous),
     points     |-> pointIncrement,
     lastUpdate |-> response.timestamp]

\* existing member (lines 365-366)
UpdateMemberOverwriting(member, response, pointIncrement) ==
    [member EXCEPT !.firstName = response.firstName,
                   !.lastName = response.lastName,
                   !.anonymous = AnonymousOf(response.anonymous),
                   !.lastUpdate = response.timestamp,
                   !.points = @ + pointIncrement]

UpdateMember(member, response, pointIncrement) ==
    [member EXCEPT !.points = @ + pointIncrement]

\* lines 353-367
CreditMember(ms, netID, response, pointIncrement) ==
    IF ~MembersHas(ms, netID)
    THEN Append(ms, NewMember(netID, response, pointIncrement))
    ELSE [k \in 1..Len(ms) |->
             IF ms[k].netID = netID
             THEN UpdateMember(ms[k], response, pointIncrement)
             ELSE ms[k]]


\* the loop of lines 304-368 from position k down, as a function of its state
RECURSIVE ProcessFrom(_, _, _, _, _, _, _)
ProcessFrom(responses, k, evs, lookup, points, ms, submitted) ==
    IF k < 0
    THEN ms
    ELSE LET response == ResponseAt(responses, k)
             netID == extractNetID(response.email)
             idx == IF response.eventCode \in DOMAIN lookup
                    THEN FindValidEventIndex(lookup[response.eventCode], 1, response,
                                             netID, evs, submitted)
                    ELSE null
         IN  IF idx = null
             THEN ProcessFrom(responses, k - 1, evs, lookup, points, ms, submitted)
             ELSE ProcessFrom(responses, k - 1, evs, lookup, points,
                              CreditMember(ms, netID, response,
                                           PointIncrement(points, evs[idx + 1].eventType)),
                              AddSubmitted(submitted, netID, idx))

\* processFormSubmissions: the Map members it returns
processFormSubmissions(responses, evs, lookup, points) ==
    ProcessFrom(responses, Len(responses) - 1, evs, lookup, points, << >>, EmptyMap)

\* updatePoints up to line 131, as a function of the three sheets it reads
MembersOf(form, catalog, schedule) ==
    processFormSubmissions(getFormResponses(form), getEvents(catalog),
                           createEventLookup(getEvents(catalog)),
                           getEventPoints(schedule))

-----------------------------------------------------------------------------
(* updatePointsRecord *)

\* Sheet.getLastRow(): the position of the last row that has content
getLastRow(sheet) ==
    LET S == {k \in 1..Len(sheet) : sheet[k] # << >>}
    IN  IF S = {} THEN 0 ELSE CHOOSE k \in S : \A l \in S : l <= k

\* getRange(row, 1, numRows, getLastColumn()).clear(): whole rows become blank
ClearRows(sheet, row, numRows) ==
    [k \in 1..Len(sheet) |->
        IF row <= k /\ k < row + numRows THEN << >> ELSE sheet[k]]

\* lines 389-392
ClearRecordShort(sheet) ==
    LET lastRow == getLastRow(sheet)
    IN  IF lastRow > 1 THEN ClearRows(sheet, 2, lastRow - 2) ELSE sheet

ClearRecord(sheet) ==
    LET lastRow == getLastRow(sheet)
    IN  IF lastRow > 1 THEN ClearRows(sheet, 2, lastRow - 1) ELSE sheet

\* getRange(row, 1, values.length, 6).setValues(values); the sheet grows as needed
SetValues(sheet, row, values) ==
    LET last == IF Len(sheet) > row + Len(values) - 1
                THEN Len(sheet)
                ELSE row + Len(values) - 1
    IN  [k \in 1..last |->
            IF row <= k /\ k < row + Len(values)
            THEN values[k - row + 1]
            ELSE IF k <= Len(sheet) THEN sheet[k] ELSE << >>]

\* one output row (lines 397-404)
RecordRow(member) ==
    <<member.netID, member.firstName, member.lastName,
      IF member.anonymous THEN "Yes" ELSE "No", member.points, member.lastUpdate>>

\* members.forEach in insertion order (lines 395-405)
OutputData(ms) == [k \in 1..Len(ms) |-> RecordRow(ms[k])]

\* lines 408-410
WriteRecord(sheet, outputData) ==
    IF Len(outputData) > 0 THEN SetValues(sheet, 2, outputData) ELSE sheet

\* the rows below the header that have content or precede a row that has
DataRows(sheet) == SubSeq(sheet, 2, getLastRow(sheet))

-----------------------------------------------------------------------------
(* One run of updatePoints *)

\* a run that clears the record table as its first step
GetFormResponsesClearing ==
    /\ pc = "getFormResponses"
    /\ SHEET_NAMES.FORM_RESPONSES \in present
    /\ formResponses' = getFormResponses(formSheet)
    /\ recordSheet' = ClearRecord(recordSheet)
    /\ pc' = "getEvents"
    /\ UNCHANGED <<formSheet, eventSheet, pointsSheet, events, eventLookup,
                   eventPoints, i, members, submittedEvents, credits, priorRecord,
                   callVars, miscVars>>

\* line 125
GetFormResponses ==
    /\ pc = "getFormResponses"
    /\ SHEET_NAMES.FORM_RESPONSES \in present
    /\ formResponses' = getFormResponses(formSheet)
    /\ pc' = "getEvents"
    /\ UNCHANGED <<sheetVars, events, eventLookup, eventPoints, i, members,
                   submittedEvents, credits, priorRecord, callVars, miscVars>>

\* lines 126-127
GetEvents ==
    /\ pc = "getEvents"
    /\ SHEET_NAMES.EVENT_CODES \in present
    /\ events' = getEvents(eventSheet)
    /\ eventLookup' = createEventLookup(events')
    /\ pc' = "getEventPoints"
    /\ UNCHANGED <<sheetVars, formResponses, eventPoints, i, members,
                   submittedEvents, credits, priorRecord, callVars, miscVars>>

\* getEventPoints that reads no points when the sheet is not there instead of
\* throwing; then the entry of processFormSubmissions
GetEventPointsUnchecked ==
    /\ pc = "getEventPoints"
    /\ eventPoints' = IF SHEET_NAMES.POINTS_SYSTEM \in present
                      THEN getEventPoints(pointsSheet)
                      ELSE EmptyMap
    /\ members' = << >>
    /\ submittedEvents' = EmptyMap
    /\ i' = Len(formResponses) - 1
    /\ pc' = "process"
    /\ UNCHANGED <<sheetVars, formResponses, events, eventLookup, credits,
                   priorRecord, callVars, miscVars>>

\* line 128, and the entry of processFormSubmissions (lines 300-304)
\* (first: an entry that keeps the members of an earlier run)
GetEventPointsKeepingMembers ==
    /\ pc = "getEventPoints"
    /\ SHEET_NAMES.POINTS_SYSTEM \in present
    /\ eventPoints' = getEventPoints(pointsSheet)
    /\ submittedEvents' = EmptyMap
    /\ i' = Len(formResponses) - 1
    /\ pc' = "process"
    /\ UNCHANGED <<sheetVars, formResponses, events, eventLookup, members, credits,
                   priorRecord, callVars, miscVars>>

GetEventPoints ==
    /\ pc = "getEventPoints"
    /\ SHEET_NAMES.POINTS_SYSTEM \in present
    /\ eventPoints' = getEventPoints(pointsSheet)
    /\ members' = << >>
    /\ submittedEvents' = EmptyMap
    /\ i' = Len(formResponses) - 1
    /\ pc' = "process"
    /\ UNCHANGED <<sheetVars, formResponses, events, eventLookup, credits,
                   priorRecord, callVars, miscVars>>

\* the response, netID and event index of the iteration at hand
Response == ResponseAt(formResponses, i)
NetID == extractNetID(Response.email)
ValidEventIndex ==
    FindValidEventIndex(eventLookup[Response.eventCode], 1, Response, NetID,
                        events, submittedEvents)

\* lines 307-310: the event code is not in the lookup
SkipInvalidCodeEnrolling ==
    /\ pc = "process"
    /\ i >= 0
    /\ Response.eventCode \notin DOMAIN eventLookup
    /\ members' = CreditMember(members, NetID, Response, 0)
    /\ i' = i - 1
    /\ UNCHANGED <<sheetVars, pc, formResponses, events, eventLookup, eventPoints,
                   submittedEvents, credits, priorRecord, callVars, miscVars>>

SkipInvalidCode ==
    /\ pc = "process"
    /\ i >= 0
    /\ Response.eventCode \notin DOMAIN eventLookup
    /\ i' = i - 1
    /\ UNCHANGED <<sheetVars, pc, formResponses, events, eventLookup, eventPoints,
                   members, submittedEvents, credits, priorRecord, callVars, miscVars>>

\* lines 312-342: no event of the code is unclaimed and valid
SkipNoValidEvent ==
    /\ pc = "process"
    /\ i >= 0
    /\ Response.eventCode \in DOMAIN eventLookup
    /\ IsString(Response.email)
    /\ ValidEventIndex = null
    /\ i' = i - 1
    /\ UNCHANGED <<sheetVars, pc, formResponses, events, eventLookup, eventPoints,
                   members, submittedEvents, credits, priorRecord, callVars, miscVars>>

\* line 313 with line 288: email.split is not a function when the email cell
\* holds no text; the TypeError is caught nowhere and ends the run
EmailSplitThrows ==
    /\ pc = "process"
    /\ i >= 0
    /\ Response.eventCode \in DOMAIN eventLookup
    /\ ~IsString(Response.email)
    /\ pc' = "error"
    /\ error' = <<"TypeError", "email.split is not a function">>
    /\ stoppedAt' = pc
    /\ UNCHANGED <<sheetVars, formResponses, events, eventLookup, eventPoints, i,
                   members, submittedEvents, credits, priorRecord, callVars,
                   present, rerunVars, overlapVars, triggerVars, botVars>>

\* lines 312-367: the submission is bound to an event and adds its points
CreditSubmission ==
    /\ pc = "process"
    /\ i >= 0
    /\ Response.eventCode \in DOMAIN eventLookup
    /\ IsString(Response.email)
    /\ ValidEventIndex # null
    /\ LET validEvent == events[ValidEventIndex + 1]
           pointIncrement == PointIncrement(eventPoints, validEvent.eventType)
       IN  /\ submittedEvents' = AddSubmitted(submittedEvents, NetID, ValidEventIndex)
           /\ members' = CreditMember(members, NetID, Response, pointIncrement)
           /\ credits' = Append(credits, [response |-> i, netID |-> NetID,
                                          index |-> ValidEventIndex,
                                          points |-> pointIncrement])
    /\ i' = i - 1
    /\ UNCHANGED <<sheetVars, pc, formResponses, events, eventLookup, eventPoints,
                   priorRecord, callVars, miscVars>>

\* line 370, and lines 383-392 of updatePointsRecord
ClearPointsRecord ==
    /\ pc = "process"
    /\ i < 0
    /\ SHEET_NAMES.POINTS_RECORD \in present
    /\ recordSheet' = ClearRecord(recordSheet)
    /\ pc' = "write"
    /\ UNCHANGED <<formSheet, eventSheet, pointsSheet, formResponses, events,
                   eventLookup, eventPoints, i, members, submittedEvents, credits,
                   priorRecord, callVars, miscVars>>

\* lines 394-410 and line 136
WritePointsRecord ==
    /\ pc = "write"
    /\ recordSheet' = WriteRecord(recordSheet, OutputData(members))
    /\ pc' = "done"
    /\ UNCHANGED <<formSheet, eventSheet, pointsSheet, formResponses, events,
                   eventLookup, eventPoints, i, members, submittedEvents, credits,
                   priorRecord, callVars, miscVars>>

-----------------------------------------------------------------------------
(* isValidSubmission applied alone *)

ApplyIsValidSubmission ==
    /\ ~ret.returned
    /\ ret' = [returned |-> TRUE,
               value |-> isValidSubmission(call.timestamp, call.eventDate,
                                           call.startTime, call.endTime,
                                           TOLERANCE_MINUTES)]
    /\ UNCHANGED <<sheetVars, runVars, call, miscVars>>

-----------------------------------------------------------------------------
(* Inputs *)

MaxSubs == 3

BoundedSeq(S, n) == UNION {[1..k -> S] : k \in 0..n}

\* a Date: day number, hours, minutes, seconds, milliseconds
At(day, h, m, sec, ms) ==
    day * MsPerDay + h * MsPerHour + m * MsPerMinute + sec * 1000 + ms

FormHeader ==
    <<"Timestamp", "Email Address", "Event Code", "First Name", "Last Name", "Anonymous">>
EventHeader ==
    <<"Date", "Start Time", "End Time", "Event Name", "Event Type", "Event Code">>
PointsHeader == <<"Event Type", "Points">>
RecordHeader ==
    <<"NetID", "First Name", "Last Name", "Anonymous", "Points", "Last Update">>

EmailA == <<"a", "@", "x">>
EmailB == <<"b", "@", "x">>
Yes == <<"Y", "e", "s">>
No == <<"N", "o">>

\* form rows: day 1 is the day of the events
FormRows ==
    { <<At(1, 19, 30, 0, 0), EmailA, "C1", "Ann", "Lee", << >> >>,
      <<At(1, 19, 20, 0, 0), EmailA, "C1", "Bob", "Ray", Yes>>,
      <<At(1, 19, 35, 0, 0), EmailA, "C1", "Cy", "Fox", No>>,
      <<At(1, 19, 31, 0, 0), EmailA, "C1", "Dee", "Poe", No>>,
      <<At(1, 18, 40, 0, 0), EmailA, "C2", "Eve", "Orr", Yes>>,
      <<At(1, 18, 50, 0, 0), EmailA, "ZZ", "Flo", "Ash", No>>,
      <<At(1, 19, 25, 0, 0), EmailB, "C1", "Gus", "Kim", << >> >> }

\* event rows: the time cells are Dates on day 0
EventA == <<At(1, 0, 0, 0, 0), At(0, 18, 0, 0, 0), At(0, 19, 0, 0, 0), "Kickoff", "GM", "C1">>
EventB == <<At(1, 0, 0, 0, 0), At(0, 19, 0, 0, 0), At(0, 20, 0, 0, 0), "Lab", "Workshop", "C1">>
EventC == <<At(1, 0, 0, 0, 0), At(0, 18, 0, 0, 0), At(0, 19, 0, 0, 0), "Picnic", "Social", "C2">>

Catalogs ==
    { << >>, <<EventA>>, <<EventA, EventB>>, <<EventB, EventA>>, <<EventA, EventA>>,
      <<EventC, EventA>> }

Schedules ==
    { << >>,
      << <<"GM", 2>>, <<"Social", 0>> >>,
      << <<"GM", 2>>, <<"GM", 3>> >> }

ManualRow(n) == <<<<"z">>, "Manual", "Edit", "No", n, At(0, 12, 0, 0, 0)>>

PriorRecords == { << >>, <<ManualRow(7), ManualRow(8), ManualRow(9)>> }

NoCall == [timestamp |-> 0, eventDate |-> 0, startTime |-> 0, endTime |-> 0]

AllSheets == {SHEET_NAMES[f] : f \in DOMAIN SHEET_NAMES}

NoRuns == << >>

\* the four sheets hold a header and rows drawn from the given sets
SheetsFrom(forms, catalogs, schedules, priors) ==
    /\ formSheet \in {<<FormHeader>> \o rows : rows \in forms}
    /\ eventSheet \in {<<EventHeader>> \o rows : rows \in catalogs}
    /\ pointsSheet \in {<<PointsHeader>> \o rows : rows \in schedules}
    /\ recordSheet \in {<<RecordHeader>> \o rows : rows \in priors}

\* updatePoints was invoked and has not executed a statement
RunInit ==
    /\ pc = "getFormResponses"
    /\ formResponses = << >>
    /\ events = << >>
    /\ eventLookup = EmptyMap
    /\ eventPoints = EmptyMap
    /\ i = 0
    /\ members = << >>
    /\ submittedEvents = EmptyMap
    /\ credits = << >>
    /\ priorRecord = recordSheet
    /\ error = NoError
    /\ stoppedAt = ""
    /\ runCount = 1
    /\ firstOutput = << >>

NoCallInit ==
    /\ call = NoCall
    /\ ret = [returned |-> TRUE, value |-> FALSE]

NoOverlapInit ==
    /\ runs = NoRuns
    /\ overlapped = FALSE

NoTriggerInit ==
    /\ triggers = {}
    /\ alerted = FALSE

\* the handlers of 'interactionCreate' that can be under way at once
HandlerIds == {"h1", "h2"}

\* no interaction, and a handler that was given none
NoInteraction == [commandName |-> "", user |-> "", roles |-> {}]
IdleHandler == [pc |-> "idle", interaction |-> NoInteraction, rows |-> << >>]

\* a handler that has not called interaction.reply
NoReply == [content |-> "", names |-> << >>, files |-> {}]

\* no bot has received a command
NoBotInit ==
    /\ memberSheet = << >>
    /\ handlers = [h \in HandlerIds |-> IdleHandler]
    /\ replies = [h \in HandlerIds |-> NoReply]
    /\ effects = {}

Init ==
    /\ SheetsFrom(BoundedSeq(FormRows, MaxSubs), Catalogs, Schedules, PriorRecords)
    /\ present = AllSheets
    /\ RunInit
    /\ NoCallInit
    /\ NoOverlapInit
    /\ NoTriggerInit
    /\ NoBotInit

Next ==
    \/ GetFormResponses
    \/ GetEvents
    \/ GetEventPoints
    \/ SkipInvalidCode
    \/ SkipNoValidEvent
    \/ CreditSubmission
    \/ ClearPointsRecord
    \/ WritePointsRecord

Spec == Init /\ [][Next]_vars

-----------------------------------------------------------------------------
(* isValidSubmission on drawn arguments *)

CallTimestamps ==
    { At(0, 18, 30, 0, 0), At(0, 23, 50, 0, 0),
      At(1, 0, 0, 0, 0), At(1, 0, 40, 0, 0), At(1, 1, 30, 0, 0), At(1, 1, 31, 0, 0),
      At(1, 17, 29, 0, 0), At(1, 17, 29, 59, 999), At(1, 17, 30, 0, 0),
      At(1, 17, 35, 0, 0), At(1, 18, 30, 0, 0),
      At(1, 19, 30, 0, 0), At(1, 19, 30, 0, 1), At(1, 19, 31, 0, 0),
      At(1, 19, 35, 0, 0), At(1, 23, 59, 59, 999),
      At(2, 0, 5, 0, 0), At(2, 18, 30, 0, 0) }

\* the date cell of an event, with and without a time of day
CallEventDates == { At(1, 0, 0, 0, 0), At(1, 12, 0, 0, 0) }

\* start and end cells: on day 0 or day 3, with and without seconds
CallTimes ==
    { <<At(0, 18, 0, 0, 0), At(0, 19, 0, 0, 0)>>,
      <<At(0, 18, 0, 45, 500), At(3, 19, 0, 30, 250)>>,
      <<At(3, 0, 10, 0, 0), At(3, 1, 0, 0, 0)>>,
      <<At(0, 23, 0, 0, 0), At(0, 23, 40, 0, 0)>> }

InitValid ==
    /\ formSheet = <<FormHeader>>
    /\ eventSheet = <<EventHeader>>
    /\ pointsSheet = <<PointsHeader>>
    /\ recordSheet = <<RecordHeader>>
    /\ pc = "done"
    /\ formResponses = << >>
    /\ events = << >>
    /\ eventLookup = EmptyMap
    /\ eventPoints = EmptyMap
    /\ i = 0
    /\ members = << >>
    /\ submittedEvents = EmptyMap
    /\ credits = << >>
    /\ priorRecord = recordSheet
    /\ present = AllSheets
    /\ error = NoError
    /\ stoppedAt = ""
    /\ runCount = 1
    /\ firstOutput = << >>
    /\ NoOverlapInit
    /\ NoTriggerInit
    /\ NoBotInit
    /\ \E t \in CallTimestamps, d \in CallEventDates, se \in CallTimes :
           call = [timestamp |-> t, eventDate |-> d,
                   startTime |-> se[1], endTime |-> se[2]]
    /\ ret = [returned |-> FALSE, value |-> FALSE]

NextValid == ApplyIsValidSubmission

SpecValid == InitValid /\ [][NextValid]_vars

-----------------------------------------------------------------------------
(* Claims *)

\* positions (0-based) of the responses the reverse pass has gone through
Processed ==
    {k \in 0..(Len(formResponses) - 1) :
        pc \in {"write", "done"} \/ (pc = "process" /\ k > i)}

\* positions in credits of the entries of response k
CreditsOf(k) == {p \in DOMAIN credits : credits[p].response = k}

\* points that the credits of netID add up to
RECURSIVE CreditedPoints(_, _)
CreditedPoints(cs, netID) ==
    IF cs = << >>
    THEN 0
    ELSE (IF Head(cs).netID = netID THEN Head(cs).points ELSE 0)
         + CreditedPoints(Tail(cs), netID)

\* the response at position k is time-valid for the event at position idx
ValidFor(k, idx) ==
    isValidSubmission(formResponses[k + 1].timestamp, events[idx + 1].date,
                      events[idx + 1].startTime, events[idx + 1].endTime,
                      TOLERANCE_MINUTES)

\* C1: in one run of processFormSubmissions, for every pair (netID, event
\* index) at most one submission increments that member's points: no two
\* credits carry the same pair, and every member's points are the sum of the
\* member's credits.
C1_AtMostOneCreditPerPair ==
    /\ \A p, q \in DOMAIN credits :
           p # q => <<credits[p].netID, credits[p].index>>
                    # <<credits[q].netID, credits[q].index>>
    /\ \A k \in DOMAIN members :
           members[k].points = CreditedPoints(credits, members[k].netID)

\* C1 witness: the pass is over, and a response was passed by although it is
\* time-valid for an event of its code that its netID was credited for
C1_Witness ==
    /\ pc = "done"
    /\ \E k \in Processed, p \in DOMAIN credits :
           /\ CreditsOf(k) = {}
           /\ credits[p].netID = extractNetID(formResponses[k + 1].email)
           /\ events[credits[p].index + 1].eventCode = formResponses[k + 1].eventCode
           /\ ValidFor(k, credits[p].index)

\* C2: isValidSubmission returns true exactly when the submission's calendar
\* date equals the event's calendar date and the submission instant lies in
\* [start - 30 min, end + 30 min], both bounds included, start and end being
\* the hours and minutes of the start and end cells anchored on the event's
\* date; for an event 18:00-19:00, 17:30, 17:35 and 19:30 of the same day are
\* valid, 17:29 and 19:31 are not.
C2_ValidExactlyInWindow ==
    ret.returned =>
        LET ts == call.timestamp
            midnight == call.eventDate - (call.eventDate % MsPerDay)
            HoursMinutes(t) == ((t % MsPerDay) \div MsPerMinute) * MsPerMinute
            start == midnight + HoursMinutes(call.startTime)
            end == midnight + HoursMinutes(call.endTime)
            sameDate == midnight <= ts /\ ts < midnight + MsPerDay
        IN  /\ ret.value <=> /\ sameDate
                             /\ start - 30 * MsPerMinute <= ts
                             /\ ts <= end + 30 * MsPerMinute
            /\ ( /\ call.eventDate = At(1, 0, 0, 0, 0)
                 /\ call.startTime = At(0, 18, 0, 0, 0)
                 /\ call.endTime = At(0, 19, 0, 0, 0) )
               => /\ ts \in {At(1, 17, 30, 0, 0), At(1, 17, 35, 0, 0), At(1, 19, 30, 0, 0)}
                     => ret.value
                  /\ ts \in {At(1, 17, 29, 0, 0), At(1, 19, 31, 0, 0)} => ~ret.value

\* C2 witness: the call for the event 18:00-19:00 at 19:30 sharp returned true
C2_Witness ==
    /\ ret.returned
    /\ ret.value
    /\ call.timestamp = At(1, 19, 30, 0, 0)
    /\ call.startTime = At(0, 18, 0, 0, 0)
    /\ call.endTime = At(0, 19, 0, 0, 0)

\* C3 as stated: with the single event C1 on day 1 from 18:00 to 19:00, a
\* submission with code C1 at 19:35 is a valid match and is credited, while
\* one at 19:31 is skipped.
C3_Original ==
    eventSheet = <<EventHeader, EventA>> =>
        \A k \in Processed :
            formResponses[k + 1].eventCode = "C1" =>
                /\ formResponses[k + 1].timestamp = At(1, 19, 35, 0, 0)
                   => CreditsOf(k) # {}
                /\ formResponses[k + 1].timestamp = At(1, 19, 31, 0, 0)
                   => CreditsOf(k) = {}

\* C3 amended: with the single event C1 on day 1 from 18:00 to 19:00, a
\* submission with code C1 at 19:35 is invalid like the one at 19:31: the step
\* that handles either changes no aggregate, no claim and credits nothing; a
\* submission at 19:30 whose netID has not claimed the event is a valid match
\* and is credited for it.
C3_Amended ==
    [][ ( /\ pc = "process"
          /\ i >= 0
          /\ eventSheet = <<EventHeader, EventA>>
          /\ Response.eventCode = "C1" )
        => /\ Response.timestamp \in {At(1, 19, 31, 0, 0), At(1, 19, 35, 0, 0)}
              => /\ ~ValidFor(i, 0)
                 /\ UNCHANGED <<members, submittedEvents, credits>>
           /\ ( /\ Response.timestamp = At(1, 19, 30, 0, 0)
                /\ \A p \in DOMAIN credits : credits[p].netID # NetID )
              => /\ ValidFor(i, 0)
                 /\ Len(credits') = Len(credits) + 1
                 /\ credits'[Len(credits')].response = i
                 /\ credits'[Len(credits')].index = 0
                 /\ MembersHas(members', NetID)
                 /\ ~MembersHas(members, NetID) ]_vars

\* C3 witness: the run with the single event is over, a submission at 19:35
\* was passed by and a submission at 19:30 was credited
C3_Witness ==
    /\ pc = "done"
    /\ eventSheet = <<EventHeader, EventA>>
    /\ \E k \in Processed :
           /\ formResponses[k + 1].timestamp = At(1, 19, 35, 0, 0)
           /\ CreditsOf(k) = {}
    /\ \E k \in Processed :
           /\ formResponses[k + 1].timestamp = At(1, 19, 30, 0, 0)
           /\ CreditsOf(k) # {}

\* the point value of the last row of the Points System sheet that carries
\* eventType, or none
ScheduleRows(eventType) ==
    {r \in 2..Len(pointsSheet) : pointsSheet[r][1] = eventType}
LastScheduleRow(eventType) ==
    CHOOSE r \in ScheduleRows(eventType) : \A q \in ScheduleRows(eventType) : q <= r

\* C4: a matched submission adds to the member's points exactly the value the
\* point schedule maps the event's type to, for every non-negative value
\* including 0; the default 1 is used only when the type is absent from the
\* schedule.
C4_ScheduleValueAdded ==
    \A p \in DOMAIN credits :
        LET eventType == events[credits[p].index + 1].eventType
        IN  credits[p].points =
                IF ScheduleRows(eventType) = {}
                THEN 1
                ELSE pointsSheet[LastScheduleRow(eventType)][2]

\* the event code of form row r (a sheet position) is carried by no event row
CodeAbsent(r) == \A e \in 2..Len(eventSheet) : eventSheet[e][6] # formSheet[r][3]

RemoveAt(seq, r) == SubSeq(seq, 1, r - 1) \o SubSeq(seq, r + 1, Len(seq))

\* C5: a submission whose eventCode has no occurrence in the event catalog
\* changes nothing: the step that handles it leaves every aggregate, every
\* claim and the record sheet as they were, and the members and the record
\* rows the run ends with are those of the same run without that submission.
C5_AbsentCodeChangesNothing ==
    /\ [][ (pc = "process" /\ i >= 0 /\ CodeAbsent(i + 2))
           => UNCHANGED <<members, submittedEvents, credits, recordSheet>> ]_vars
    /\ [](pc = "done" =>
            \A r \in 2..Len(formSheet) :
                CodeAbsent(r) =>
                    LET without == MembersOf(RemoveAt(formSheet, r), eventSheet,
                                             pointsSheet)
                    IN  /\ members = without
                        /\ DataRows(recordSheet) = OutputData(without))

\* C5 witness: the run is over, the form held a submission with an absent
\* code next to a submission that was credited
C5_Witness ==
    /\ pc = "done"
    /\ \E r \in 2..Len(formSheet) : CodeAbsent(r)
    /\ credits # << >>

\* the netIDs of the form responses
NetIDs == {extractNetID(formResponses[k].email) : k \in DOMAIN formResponses}

\* the event at position idx is the only one of its event code
OnlyOccurrence(idx) ==
    \A j \in 0..(Len(events) - 1) :
        j # idx => events[j + 1].eventCode # events[idx + 1].eventCode

\* positions of the responses of netID that carry the code of the event at
\* position idx and are time-valid for it
Group(netID, idx) ==
    {k \in 0..(Len(formResponses) - 1) :
        /\ extractNetID(formResponses[k + 1].email) = netID
        /\ formResponses[k + 1].eventCode = events[idx + 1].eventCode
        /\ ValidFor(k, idx)}

Last(S) == CHOOSE k \in S : \A l \in S : l <= k
First(S) == CHOOSE k \in S : \A l \in S : k <= l

\* the member entry of netID
MemberOf(netID) == members[CHOOSE k \in DOMAIN members : members[k].netID = netID]

\* the member entry of netID carries the name, anonymity and timestamp of the
\* response at position k
Carries(netID, k) ==
    /\ MemberOf(netID).firstName = formResponses[k + 1].firstName
    /\ MemberOf(netID).lastName = formResponses[k + 1].lastName
    /\ MemberOf(netID).anonymous = AnonymousOf(formResponses[k + 1].anonymous)
    /\ MemberOf(netID).lastUpdate = formResponses[k + 1].timestamp

\* positions in credits of the entries of the pair (netID, idx)
CreditsFor(netID, idx) ==
    {p \in DOMAIN credits : credits[p].netID = netID /\ credits[p].index = idx}

\* the credited response of netID that is stored last
LastCredited(netID) ==
    Last({credits[p].response : p \in {q \in DOMAIN credits : credits[q].netID = netID}})

\* C6 as stated: when several submissions of one netID are all time-valid for
\* the only occurrence of their event code, the one stored last is the one
\* credited, the member's aggregate carries that submission's firstName,
\* lastName, anonymity and timestamp, and the points are incremented once.
C6_Original ==
    pc = "done" =>
        \A netID \in NetIDs, idx \in 0..(Len(events) - 1) :
            (OnlyOccurrence(idx) /\ Cardinality(Group(netID, idx)) >= 2) =>
                /\ \E p \in CreditsFor(netID, idx) :
                       credits[p].response = Last(Group(netID, idx))
                /\ Cardinality(CreditsFor(netID, idx)) = 1
                /\ MembersHas(members, netID)
                /\ Carries(netID, Last(Group(netID, idx)))

\* C6 amended: when several submissions of one netID are all time-valid for
\* the only occurrence of their event code, the one stored last is the one
\* credited and the points are incremented once for that occurrence; the
\* member's aggregate carries the firstName, lastName, anonymity and timestamp
\* of the last-stored credited submission of that netID, which is that
\* submission when no credited submission of the netID is stored after it.
C6_Amended ==
    pc = "done" =>
        \A netID \in NetIDs, idx \in 0..(Len(events) - 1) :
            (OnlyOccurrence(idx) /\ Cardinality(Group(netID, idx)) >= 2) =>
                /\ \E p \in CreditsFor(netID, idx) :
                       credits[p].response = Last(Group(netID, idx))
                /\ Cardinality(CreditsFor(netID, idx)) = 1
                /\ MembersHas(members, netID)
                /\ Carries(netID, LastCredited(netID))
                /\ LastCredited(netID) = Last(Group(netID, idx))
                   => Carries(netID, Last(Group(netID, idx)))

\* C6 witness: the run is over, two submissions of one netID were time-valid
\* for the only occurrence of their code, and a submission of the netID that
\* is stored after them was credited for another event
C6_Witness ==
    /\ pc = "done"
    /\ \E netID \in NetIDs, idx \in 0..(Len(events) - 1) :
           /\ OnlyOccurrence(idx)
           /\ Cardinality(Group(netID, idx)) >= 2
           /\ LastCredited(netID) > Last(Group(netID, idx))

\* the responses at the positions of S are stored in chronological order
Chronological(S) ==
    \A k, l \in S :
        k < l => formResponses[k + 1].timestamp <= formResponses[l + 1].timestamp

\* C7 as stated: of two submissions of one member for the same event
\* occurrence, stored in chronological order, exactly one contributes points
\* and it is the one stored first.
C7_Original ==
    pc = "done" =>
        \A netID \in NetIDs, idx \in 0..(Len(events) - 1) :
            ( /\ OnlyOccurrence(idx)
              /\ Cardinality(Group(netID, idx)) >= 2
              /\ Chronological(Group(netID, idx)) )
            => {k \in Group(netID, idx) : CreditsOf(k) # {}}
               = {First(Group(netID, idx))}

\* C7 amended: of two (or more) submissions of one member that are time-valid
\* for the same event occurrence, the only occurrence of their event code,
\* stored in chronological order, exactly one contributes points and it is the
\* one stored last, the chronologically latest.
C7_Amended ==
    pc = "done" =>
        \A netID \in NetIDs, idx \in 0..(Len(events) - 1) :
            ( /\ OnlyOccurrence(idx)
              /\ Cardinality(Group(netID, idx)) >= 2
              /\ Chronological(Group(netID, idx)) )
            => /\ {k \in Group(netID, idx) : CreditsOf(k) # {}}
                  = {Last(Group(netID, idx))}
               /\ \A p \in CreditsOf(Last(Group(netID, idx))) :
                      credits[p].index = idx /\ credits[p].netID = netID

\* C7 witness: the run is over, and two submissions of one member for the only
\* occurrence of their code were stored with increasing timestamps
C7_Witness ==
    /\ pc = "done"
    /\ \E netID \in NetIDs, idx \in 0..(Len(events) - 1) :
           /\ OnlyOccurrence(idx)
           /\ Chronological(Group(netID, idx))
           /\ \E k, l \in Group(netID, idx) :
                  /\ k < l
                  /\ formResponses[k + 1].timestamp < formResponses[l + 1].timestamp
                  /\ CreditsOf(l) # {}
                  /\ CreditsOf(k) = {}

\* C8: once a member's aggregate exists, every later-processed submission of
\* that member leaves firstName, lastName, anonymous and lastUpdate unchanged
\* and can change only points: every step keeps each existing entry at its
\* place with the same netID and the same four fields, and never lowers points.
C8_OnlyPointsChange ==
    [][ \A k \in DOMAIN members :
            /\ k \in DOMAIN members'
            /\ members'[k].netID = members[k].netID
            /\ members'[k].firstName = members[k].firstName
            /\ members'[k].lastName = members[k].lastName
            /\ members'[k].anonymous = members[k].anonymous
            /\ members'[k].lastUpdate = members[k].lastUpdate
            /\ members'[k].points >= members[k].points ]_vars

\* C8 witness: a member was credited for a second submission whose name,
\* anonymity and timestamp all differ from those the aggregate was created with
C8_Witness ==
    \E p, q \in DOMAIN credits :
        /\ p < q
        /\ credits[p].netID = credits[q].netID
        /\ formResponses[credits[p].response + 1].firstName
           # formResponses[credits[q].response + 1].firstName
        /\ AnonymousOf(formResponses[credits[p].response + 1].anonymous)
           # AnonymousOf(formResponses[credits[q].response + 1].anonymous)
        /\ formResponses[credits[p].response + 1].timestamp
           # formResponses[credits[q].response + 1].timestamp

\* event positions that netID had claimed when the response at position k
\* was handled: those of its credits for responses stored after k
ClaimedBefore(netID, k) ==
    {credits[p].index :
        p \in {q \in DOMAIN credits : credits[q].netID = netID /\ credits[q].response > k}}

\* the event positions, of the code of the response at position k, that its
\* netID had not claimed and for which the response is time-valid
Candidates(k) ==
    {idx \in 0..(Len(events) - 1) :
        /\ eventSheet[idx + 2][6] = formResponses[k + 1].eventCode
        /\ idx \notin ClaimedBefore(extractNetID(formResponses[k + 1].email), k)
        /\ ValidFor(k, idx)}

\* C9: the occurrence a submission binds to is the first one, in catalog
\* order among the occurrences of its event code, that is not yet claimed by
\* the submitter's netID and time-valid; the search stops there, so a
\* submission claims at most one occurrence and adds points at most once; the
\* claims held in submittedEvents are exactly the credited pairs.
C9_FirstUnclaimedValid ==
    /\ \A k \in Processed :
           /\ Cardinality(CreditsOf(k)) <= 1
           /\ IF Candidates(k) = {}
              THEN CreditsOf(k) = {}
              ELSE \E p \in CreditsOf(k) :
                       /\ credits[p].index = First(Candidates(k))
                       /\ credits[p].netID = extractNetID(formResponses[k + 1].email)
    /\ \A netID \in NetIDs :
           {credits[p].index : p \in {q \in DOMAIN credits : credits[q].netID = netID}}
           = IF netID \in DOMAIN submittedEvents THEN submittedEvents[netID] ELSE {}

\* C9 witness: a submission was bound to the second of two occurrences of its
\* code although it is time-valid for the first, which its netID had claimed
C9_Witness ==
    /\ Len(events) = 2
    /\ events[1].eventCode = events[2].eventCode
    /\ \E p \in DOMAIN credits :
           /\ credits[p].index = 1
           /\ ValidFor(credits[p].response, 0)
           /\ 0 \in ClaimedBefore(credits[p].netID, credits[p].response)

\* the netIDs of the credits, each once, in the order of their first credit
RECURSIVE FirstCredited(_, _)
FirstCredited(cs, seen) ==
    IF cs = << >>
    THEN << >>
    ELSE IF Head(cs).netID \in seen
         THEN FirstCredited(Tail(cs), seen)
         ELSE <<Head(cs).netID>> \o FirstCredited(Tail(cs), seen \cup {Head(cs).netID})

\* C10: after a run of updatePoints, the data rows of the Points Record sheet
\* are exactly one row [netID, firstName, lastName, 'Yes' or 'No', points,
\* lastUpdate] per member of the map, in insertion order, and nothing else;
\* the members come in the order of their first credit, and the rows are a
\* function of the form, event and points sheets alone, so runs from
\* different prior record tables end with identical tables.
C10_RecordIsMembersOnly ==
    pc = "done" =>
        /\ DataRows(recordSheet) =
               [k \in DOMAIN members |->
                   <<members[k].netID, members[k].firstName, members[k].lastName,
                     IF members[k].anonymous THEN "Yes" ELSE "No",
                     members[k].points, members[k].lastUpdate>>]
        /\ DataRows(recordSheet)
           = OutputData(MembersOf(formSheet, eventSheet, pointsSheet))
        /\ [k \in DOMAIN members |-> members[k].netID] = FirstCredited(credits, {})

\* C10 witness: the run is over, the prior record table held more rows than
\* there are members, and there is a member
C10_Witness ==
    /\ pc = "done"
    /\ members # << >>
    /\ Len(priorRecord) > Len(members) + 1
    /\ DataRows(recordSheet) # SubSeq(priorRecord, 2, Len(priorRecord))

-----------------------------------------------------------------------------
(* One run of updatePoints over addresses that differ in domain, in case, or
   have no '@' *)

EmailAOtherDomain == <<"a", "@", "y">>
EmailUpperA == <<"A", "@", "x">>
EmailNoAt == <<"a">>
EmailTwoAts == <<"a", "@", "x", "@", "y">>

EmailRows ==
    { <<At(1, 19, 30, 0, 0), EmailA, "C1", "Ann", "Lee", << >> >>,
      <<At(1, 19, 31, 0, 0), EmailAOtherDomain, "C1", "Bob", "Ray", Yes>>,
      <<At(1, 19, 32, 0, 0), EmailUpperA, "C1", "Cy", "Fox", No>>,
      <<At(1, 19, 33, 0, 0), EmailNoAt, "C1", "Dee", "Poe", No>>,
      <<At(1, 19, 34, 0, 0), EmailTwoAts, "C1", "Eve", "Orr", Yes>>,
      <<At(1, 19, 35, 0, 0), EmailB, "ZZ", "Flo", "Ash", No>> }

InitEmail ==
    /\ SheetsFrom(BoundedSeq(EmailRows, MaxSubs), {<<EventB>>},
                  {<< <<"Workshop", 2>> >>}, {<<ManualRow(7)>>})
    /\ present = AllSheets
    /\ RunInit
    /\ NoCallInit
    /\ NoOverlapInit
    /\ NoTriggerInit
    /\ NoBotInit

SpecEmail == InitEmail /\ [][Next]_vars

-----------------------------------------------------------------------------
(* updatePoints on a spreadsheet that lacks some of its sheets *)

\* throw new Error(`${name} sheet not found`): nothing catches it, the run ends
SheetNotFound(name) ==
    /\ name \notin present
    /\ pc' = "error"
    /\ error' = NotFound(name)
    /\ stoppedAt' = pc
    /\ UNCHANGED <<sheetVars, formResponses, events, eventLookup, eventPoints, i,
                   members, submittedEvents, credits, priorRecord, callVars,
                   present, rerunVars, overlapVars, triggerVars, botVars>>

\* lines 148-151
FormResponsesNotFound ==
    /\ pc = "getFormResponses"
    /\ SheetNotFound(SHEET_NAMES.FORM_RESPONSES)
\* lines 177-180
EventCodesNotFound ==
    /\ pc = "getEvents"
    /\ SheetNotFound(SHEET_NAMES.EVENT_CODES)
\* lines 225-228
PointsSystemNotFound ==
    /\ pc = "getEventPoints"
    /\ SheetNotFound(SHEET_NAMES.POINTS_SYSTEM)
\* lines 383-386, reached when the loop of processFormSubmissions is over
PointsRecordNotFound ==
    /\ pc = "process"
    /\ i < 0
    /\ SheetNotFound(SHEET_NAMES.POINTS_RECORD)

MissingRows ==
    { <<At(1, 19, 30, 0, 0), EmailA, "C1", "Ann", "Lee", << >> >>,
      <<At(1, 19, 20, 0, 0), EmailA, "C1", "Bob", "Ray", Yes>>,
      <<At(1, 18, 50, 0, 0), EmailA, "ZZ", "Flo", "Ash", No>> }

InitMissing ==
    /\ SheetsFrom(BoundedSeq(MissingRows, MaxSubs), {<<EventB>>},
                  {<< <<"Workshop", 2>> >>}, {<<ManualRow(7), ManualRow(8)>>})
    /\ present \in SUBSET AllSheets
    /\ RunInit
    /\ NoCallInit
    /\ NoOverlapInit
    /\ NoTriggerInit
    /\ NoBotInit

NextMissing ==
    \/ Next
    \/ FormResponsesNotFound
    \/ EventCodesNotFound
    \/ PointsSystemNotFound
    \/ PointsRecordNotFound

\* the script runs to its end or to the Error: no statement waits
SpecMissing == InitMissing /\ [][NextMissing]_vars /\ WF_vars(NextMissing)

-----------------------------------------------------------------------------
(* updatePoints over submissions with malformed cells *)

MalformedRows ==
    { <<At(1, 19, 30, 0, 0), EmailA, "C1", "Ann", "Lee", << >> >>,
      <<At(1, 19, 31, 0, 0), EmailB, "C1", "Bob", "Ray", Yes>>,
      <<NotADate, EmailA, "C1", "Cy", "Fox", No>>,
      <<At(1, 19, 32, 0, 0), NumberCell, "C1", "Dee", "Poe", No>>,
      <<At(1, 19, 33, 0, 0), NumberCell, "ZZ", "Eve", "Orr", Yes>>,
      <<At(1, 19, 34, 0, 0), << >>, "C1", "Flo", "Ash", No>>,
      <<At(1, 19, 35, 0, 0), EmailNoAt, "C1", "Gus", "Kim", << >> >> }

\* an event row whose date cell does not parse as a date
EventNoDate == <<NotADate, At(0, 19, 0, 0, 0), At(0, 20, 0, 0, 0), "Lab", "Workshop", "C1">>

InitMalformed ==
    /\ SheetsFrom(BoundedSeq(MalformedRows, MaxSubs),
                  {<<EventB>>, <<EventNoDate, EventB>>},
                  {<< <<"Workshop", 2>> >>}, {<<ManualRow(7), ManualRow(8)>>})
    /\ present = AllSheets
    /\ RunInit
    /\ NoCallInit
    /\ NoOverlapInit
    /\ NoTriggerInit
    /\ NoBotInit

NextMalformed ==
    \/ Next
    \/ EmailSplitThrows

SpecMalformed == InitMalformed /\ [][NextMalformed]_vars

-----------------------------------------------------------------------------
(* updatePoints ended from outside (execution time limit, cancellation) *)

Running == {"getFormResponses", "getEvents", "getEventPoints", "process", "write"}

\* the run is ended between two of its steps
Abort ==
    /\ pc \in Running
    /\ pc' = "aborted"
    /\ stoppedAt' = pc
    /\ UNCHANGED <<sheetVars, formResponses, events, eventLookup, eventPoints, i,
                   members, submittedEvents, credits, priorRecord, callVars,
                   present, error, rerunVars, overlapVars, triggerVars, botVars>>

InitAbort ==
    /\ SheetsFrom(BoundedSeq(MissingRows, MaxSubs), {<<EventB>>},
                  {<< <<"Workshop", 2>> >>}, {<< >>, <<ManualRow(7), ManualRow(8)>>})
    /\ present = AllSheets
    /\ RunInit
    /\ NoCallInit
    /\ NoOverlapInit
    /\ NoTriggerInit
    /\ NoBotInit

NextAbort ==
    \/ Next
    \/ Abort

SpecAbort == InitAbort /\ [][NextAbort]_vars

-----------------------------------------------------------------------------
(* Two invocations of updatePoints on one spreadsheet (a time trigger and the
   menu item, or two users), and form submissions arriving meanwhile.  Each
   invocation has its own locals; the calls on the spreadsheet are the steps. *)

RunIds == {1, 2}

IdleRun == [pc |-> "idle", read |-> 0, members |-> << >>, lastRow |-> 0]

\* a run is between its first and its last step
UnderWay(r) == runs[r].pc \notin {"idle", "done"}

\* the rows a form submission can add
ArrivingRows ==
    { <<At(1, 19, 30, 0, 0), EmailA, "C1", "Ann", "Lee", << >> >>,
      <<At(1, 19, 25, 0, 0), EmailB, "C1", "Gus", "Kim", << >> >> }

\* Google Forms appends a response row to 'Form Responses 1'
FormSubmit ==
    /\ Len(formSheet) - 1 < MaxSubs
    /\ \E row \in ArrivingRows : formSheet' = Append(formSheet, row)
    /\ UNCHANGED <<eventSheet, pointsSheet, recordSheet, runVars, callVars, miscVars>>

\* lines 125-131: the run reads the three sheets and computes its members
RunRead(r) ==
    /\ runs[r].pc = "idle"
    /\ runs' = [runs EXCEPT ![r] =
                    [pc |-> "getLastRow",
                     read |-> Len(formSheet) - 1,
                     members |-> MembersOf(formSheet, eventSheet, pointsSheet),
                     lastRow |-> 0]]
    /\ overlapped' = (overlapped \/ \E q \in RunIds \ {r} : UnderWay(q))
    /\ UNCHANGED <<sheetVars, runVars, callVars, present, failVars, rerunVars,
                   triggerVars, botVars>>

\* line 389
RunGetLastRow(r) ==
    /\ runs[r].pc = "getLastRow"
    /\ runs' = [runs EXCEPT ![r].pc = "clear", ![r].lastRow = getLastRow(recordSheet)]
    /\ UNCHANGED <<sheetVars, runVars, callVars, present, failVars, rerunVars,
                   overlapped, triggerVars, botVars>>

\* a run that leaves the old rows in place
RunClearSkipped(r) ==
    /\ runs[r].pc = "clear"
    /\ runs' = [runs EXCEPT ![r].pc = "write"]
    /\ UNCHANGED <<sheetVars, runVars, callVars, present, failVars, rerunVars,
                   overlapped, triggerVars, botVars>>

\* lines 390-392
RunClear(r) ==
    /\ runs[r].pc = "clear"
    /\ recordSheet' = IF runs[r].lastRow > 1
                      THEN ClearRows(recordSheet, 2, runs[r].lastRow - 1)
                      ELSE recordSheet
    /\ runs' = [runs EXCEPT ![r].pc = "write"]
    /\ UNCHANGED <<formSheet, eventSheet, pointsSheet, runVars, callVars, present,
                   failVars, rerunVars, overlapped, triggerVars, botVars>>

\* lines 394-410 and line 136
RunWrite(r) ==
    /\ runs[r].pc = "write"
    /\ recordSheet' = WriteRecord(recordSheet, OutputData(runs[r].members))
    /\ runs' = [runs EXCEPT ![r].pc = "done"]
    /\ UNCHANGED <<formSheet, eventSheet, pointsSheet, runVars, callVars, present,
                   failVars, rerunVars, overlapped, triggerVars, botVars>>

InitConcurrent ==
    /\ SheetsFrom({<< >>}, {<<EventB>>}, {<< <<"Workshop", 2>> >>},
                  {<< >>, <<ManualRow(7), ManualRow(8), ManualRow(9)>>})
    /\ present = AllSheets
    /\ RunInit
    /\ NoCallInit
    /\ runs = [r \in RunIds |-> IdleRun]
    /\ overlapped = FALSE
    /\ NoTriggerInit
    /\ NoBotInit

NextConcurrent ==
    \/ FormSubmit
    \/ \E r \in RunIds : RunRead(r)
    \/ \E r \in RunIds : RunGetLastRow(r)
    \/ \E r \in RunIds : RunClear(r)
    \/ \E r \in RunIds : RunWrite(r)

SpecConcurrent == InitConcurrent /\ [][NextConcurrent]_vars

-----------------------------------------------------------------------------
(* createTimeTrigger *)

\* identifiers that ScriptApp can give to a trigger
MaxTriggerId == 5
TriggerIds == 1..MaxTriggerId

\* the triggers whose handler function is the given one, and the others
HandledBy(ts, handler) == {t \in ts : t.handler = handler}
NotHandledBy(ts, handler) == {t \in ts : t.handler # handler}

\* ScriptApp.newTrigger(handler).timeBased().everyDays(1).create(): the new
\* trigger gets an identifier that no trigger of the project has
NewTriggers(ts, handler) ==
    {[id |-> n, handler |-> handler] :
        n \in TriggerIds \ {t.id : t \in ts}}

\* createTimeTrigger without the deletion of lines 98-103
CreateTimeTriggerKeeping ==
    /\ \E new \in NewTriggers(triggers, TRIGGER_FUNCTION_NAME) :
           triggers' = triggers \cup {new}
    /\ alerted' = TRUE
    /\ UNCHANGED <<sheetVars, runVars, callVars, present, failVars, rerunVars,
                   overlapVars, botVars>>

\* lines 96-112: every trigger of 'updatePoints' is deleted, one is created,
\* the alert is shown
CreateTimeTrigger ==
    /\ \E new \in NewTriggers(triggers, TRIGGER_FUNCTION_NAME) :
           triggers' = NotHandledBy(triggers, TRIGGER_FUNCTION_NAME) \cup {new}
    /\ alerted' = TRUE
    /\ UNCHANGED <<sheetVars, runVars, callVars, present, failVars, rerunVars,
                   overlapVars, botVars>>

\* the project triggers before the first call: up to three, of any handlers
InitialTriggers ==
    {ts \in SUBSET [id : {1, 2, 3},
                    handler : {TRIGGER_FUNCTION_NAME, "onEdit", "sendDigest"}] :
        \A t \in ts, u \in ts : t.id = u.id => t = u}

InitTrigger ==
    /\ SheetsFrom({<< >>}, {<< >>}, {<< >>}, {<< >>})
    /\ present = AllSheets
    /\ RunInit
    /\ NoCallInit
    /\ NoOverlapInit
    /\ triggers \in InitialTriggers
    /\ alerted = FALSE
    /\ NoBotInit

NextTrigger == CreateTimeTrigger

SpecTrigger == InitTrigger /\ [][NextTrigger]_vars

-----------------------------------------------------------------------------
(* updatePoints run twice over the same sheets *)

MaxRuns == 2

\* updatePoints is invoked again after a run has ended: the locals of the new
\* invocation are assigned by its own statements (lines 125-128, 300-304)
RunAgain ==
    /\ pc = "done"
    /\ runCount < MaxRuns
    /\ runCount' = runCount + 1
    /\ firstOutput' = IF runCount = 1 THEN recordSheet ELSE firstOutput
    /\ priorRecord' = recordSheet
    /\ credits' = << >>
    /\ pc' = "getFormResponses"
    /\ UNCHANGED <<sheetVars, formResponses, events, eventLookup, eventPoints, i,
                   members, submittedEvents, callVars, present, failVars,
                   overlapVars, triggerVars, botVars>>

InitRerun ==
    /\ SheetsFrom(BoundedSeq(FormRows, MaxSubs),
                  {<<EventA, EventB>>, <<EventC, EventA>>},
                  {<< <<"GM", 2>>, <<"Social", 0>> >>},
                  {<<ManualRow(7), ManualRow(8), ManualRow(9)>>})
    /\ present = AllSheets
    /\ RunInit
    /\ NoCallInit
    /\ NoOverlapInit
    /\ NoTriggerInit
    /\ NoBotInit

NextRerun ==
    \/ Next
    \/ RunAgain

SpecRerun == InitRerun /\ [][NextRerun]_vars

-----------------------------------------------------------------------------
(* One run of updatePoints over answers to the Anonymous question *)

EmailC == <<"c", "@", "x">>
YesMixedCase == <<"y", "E", "S">>
OhYes == <<"O", "h", "Y", "e", "s">>
Ye == <<"y", "e">>

AnonymousRows ==
    { <<At(1, 19, 30, 0, 0), EmailA, "C1", "Ann", "Lee", << >> >>,
      <<At(1, 19, 31, 0, 0), EmailA, "C1", "Bob", "Ray", Yes>>,
      <<At(1, 19, 32, 0, 0), EmailB, "C1", "Cy", "Fox", No>>,
      <<At(1, 19, 33, 0, 0), EmailB, "C1", "Dee", "Poe", YesMixedCase>>,
      <<At(1, 19, 34, 0, 0), EmailC, "C1", "Eve", "Orr", OhYes>>,
      <<At(1, 19, 35, 0, 0), EmailC, "C1", "Flo", "Ash", Ye>>,
      <<At(1, 19, 36, 0, 0), EmailC, "ZZ", "Gus", "Kim", No>> }

InitAnonymous ==
    /\ SheetsFrom(BoundedSeq(AnonymousRows, MaxSubs), {<<EventB>>},
                  {<< <<"Workshop", 2>> >>}, {<<ManualRow(7)>>})
    /\ present = AllSheets
    /\ RunInit
    /\ NoCallInit
    /\ NoOverlapInit
    /\ NoTriggerInit
    /\ NoBotInit

SpecAnonymous == InitAnonymous /\ [][Next]_vars

-----------------------------------------------------------------------------
(* Claims C11 to C20 *)

\* C11: reconciliation is a function of its inputs alone: a second run over
\* the same submissions, events and point schedule ends with the same record
\* rows in the same order as the first, both equal to the rows computed from
\* the three sheets; and no step changes the input sheets, nor, during the
\* pass over the submissions, the sequences and maps read from them.
C11_SameInputsSameRows ==
    /\ [](pc = "done" =>
            /\ DataRows(recordSheet)
               = OutputData(MembersOf(formSheet, eventSheet, pointsSheet))
            /\ runCount > 1 => recordSheet = firstOutput)
    /\ [][/\ UNCHANGED <<formSheet, eventSheet, pointsSheet>>
          /\ pc = "process" =>
                 UNCHANGED <<formResponses, events, eventLookup, eventPoints>>]_vars

\* C11 witness: the second run is over, after the first wrote two member rows
C11_Witness ==
    /\ pc = "done"
    /\ runCount = 2
    /\ Len(DataRows(firstOutput)) = 2
    /\ Len(members) = 2
    /\ recordSheet = firstOutput


\* the required sheets that the spreadsheet lacks
Missing == AllSheets \ present

\* C12: when a required sheet is missing, updatePoints ends with the Error
\* "<name> sheet not found" for a missing sheet, raised to the invoker, and
\* the Points Record sheet never differs from what it was when the run
\* started: the run reaches neither the clear nor the write.
C12_MissingSheetNoWrite ==
    /\ [](Missing # {} =>
            /\ recordSheet = priorRecord
            /\ pc \notin {"write", "done"})
    /\ [](pc = "error" =>
            /\ \E name \in Missing : error = NotFound(name)
            /\ recordSheet = priorRecord)
    /\ (Missing # {}) ~> (pc = "error" /\ error # NoError)

\* C12 witness: only the Points Record sheet is missing; the run went
\* through every submission, made a member, and ended with the Error
C12_Witness ==
    /\ Missing = {SHEET_NAMES.POINTS_RECORD}
    /\ pc = "error"
    /\ stoppedAt = "process"
    /\ members # << >>
    /\ error = NotFound(SHEET_NAMES.POINTS_RECORD)

\* the form row has a timestamp that parses and an email cell that is a text
WellFormed(row) == NewDate(row[1]) # NaN /\ IsString(row[2])

\* the form sheet without its malformed rows
WithoutMalformed(form) ==
    <<form[1]>> \o SelectSeq(Tail(form), WellFormed)

\* C13: a malformed submission row never aborts the run: no run ends in an
\* Error; no submission whose timestamp does not parse is credited; and the
\* run ends having written exactly the members that the batch without the
\* rows of unparsable timestamp or non-text email gives (rows whose email is
\* empty or has no '@' are processed under the degraded netID).
C13_MalformedRowNeverAborts ==
    /\ pc # "error"
    /\ error = NoError
    /\ \A p \in DOMAIN credits :
           NewDate(formResponses[credits[p].response + 1].timestamp) # NaN
    /\ pc = "done" =>
           /\ members = MembersOf(WithoutMalformed(formSheet), eventSheet, pointsSheet)
           /\ DataRows(recordSheet) = OutputData(members)

\* C14: a submission matched to an event whose type has no row in the Points
\* System sheet earns exactly 1 point and the run raises no error: every such
\* credit carries 1 point, each member's total is the sum of its credits,
\* and no Error ended the run.
C14_AbsentTypeEarnsOne ==
    /\ error = NoError
    /\ pc # "error"
    /\ \A p \in DOMAIN credits :
           ScheduleRows(events[credits[p].index + 1].eventType) = {}
               => credits[p].points = 1
    /\ \A k \in DOMAIN members :
           members[k].points = CreditedPoints(credits, members[k].netID)

\* C14 witness: the run ended after crediting a submission for an event whose
\* type is absent from a schedule that has rows for other types
C14_Witness ==
    /\ pc = "done"
    /\ Len(pointsSheet) > 1
    /\ \E p \in DOMAIN credits :
           /\ ScheduleRows(events[credits[p].index + 1].eventType) = {}
           /\ \E k \in DOMAIN members :
                  /\ members[k].netID = credits[p].netID
                  /\ members[k].points = 1

\* C15: when the form sheet holds its header only, the run produces no member
\* and no record row, and still clears every data row the Points Record
\* sheet had: the header is all that is left.
C15_EmptyTableClearsRecord ==
    (pc = "done" /\ Len(formSheet) = 1) =>
        /\ formResponses = << >>
        /\ members = << >>
        /\ credits = << >>
        /\ recordSheet[1] = RecordHeader
        /\ \A r \in 2..Len(recordSheet) : recordSheet[r] = << >>
        /\ DataRows(recordSheet) = << >>

\* C15 witness: the run is over, the form held its header only and the
\* record sheet had data rows before the run
C15_Witness ==
    /\ pc = "done"
    /\ Len(formSheet) = 1
    /\ Len(priorRecord) > 1
    /\ recordSheet # priorRecord

\* the catalog positions (0-based) that carry the event code
PositionsOf(code) ==
    {idx \in 0..(Len(events) - 1) : events[idx + 1].eventCode = code}

\* C16: createEventLookup keeps every occurrence: its keys are the codes of
\* the catalog, each code maps to the strictly increasing sequence of all
\* catalog positions carrying it, and every catalog position is in exactly
\* one list.
C16_LookupKeepsEveryOccurrence ==
    pc \notin {"getFormResponses", "getEvents"} =>
        /\ eventLookup = createEventLookup(events)
        /\ DOMAIN eventLookup = {events[k].eventCode : k \in DOMAIN events}
        /\ \A code \in DOMAIN eventLookup :
               LET list == eventLookup[code]
               IN  /\ {list[j] : j \in DOMAIN list} = PositionsOf(code)
                   /\ \A j \in DOMAIN list, k \in DOMAIN list :
                          j < k => list[j] < list[k]
        /\ \A idx \in 0..(Len(events) - 1) :
               Cardinality({code \in DOMAIN eventLookup :
                               \E j \in DOMAIN eventLookup[code] :
                                   eventLookup[code][j] = idx}) = 1

\* C16 witness: the lookup was built from a catalog in which a code has two
\* occurrences
C16_Witness ==
    /\ pc = "process"
    /\ \E code \in DOMAIN eventLookup : Len(eventLookup[code]) = 2

\* a run that read the most recent submissions among the runs
LatestRun ==
    CHOOSE r \in RunIds : \A q \in RunIds : runs[q].read <= runs[r].read

AllDone == \A r \in RunIds : runs[r].pc = "done"

\* C18: when the runs of updatePoints are serialized (none starts while
\* another is under way), whenever no run is under way and one has ended the
\* data rows of the Points Record sheet are the output of the run that read
\* the most recent submissions. (That overlapping runs can end otherwise is
\* the reachable state C18_Witness.)
C18_SerializedRunsKeepLatest ==
    (/\ ~overlapped
     /\ \A r \in RunIds : ~UnderWay(r)
     /\ \E r \in RunIds : runs[r].pc = "done")
        => DataRows(recordSheet) = OutputData(runs[LatestRun].members)

\* C18 witness: two runs overlapped, both have ended, and the Points Record
\* sheet is not the output of the run that read the most recent submissions
C18_Witness ==
    /\ overlapped
    /\ AllDone
    /\ DataRows(recordSheet) # OutputData(runs[LatestRun].members)

\* C20: every call of createTimeTrigger, from any set of project triggers,
\* ends with exactly one trigger whose handler is 'updatePoints', and with
\* the triggers of the other handlers as they were before the call.
C20_OneUpdatePointsTrigger ==
    /\ [](alerted => Cardinality(HandledBy(triggers, "updatePoints")) = 1)
    /\ [][(triggers' # triggers \/ alerted' # alerted) =>
            /\ Cardinality(HandledBy(triggers', "updatePoints")) = 1
            /\ NotHandledBy(triggers', "updatePoints")
               = NotHandledBy(triggers, "updatePoints")
            /\ alerted']_vars

\* C20 witness: after a call there are two triggers of other handlers and the
\* one trigger of 'updatePoints' is a new one
C20_Witness ==
    /\ alerted
    /\ Cardinality(NotHandledBy(triggers, "updatePoints")) = 2
    /\ \E t \in triggers : t.handler = "updatePoints" /\ t.id > 3

\* the step is the clear or the write of updatePointsRecord
InUpdatePointsRecord == (pc = "process" /\ i < 0) \/ pc = "write"

\* the record sheet changes in updatePointsRecord only, and a run ended
\* before the clear leaves every record row as it was
RecordKeptUntilClear ==
    /\ [][recordSheet' # recordSheet => InUpdatePointsRecord]_vars
    /\ [](pc = "aborted" /\ stoppedAt # "write" => recordSheet = priorRecord)

\* C19 as stated: the Points Record sheet changes only inside
\* updatePointsRecord; a run ended before the clear leaves every record row
\* as it was; a run ended between the clear and the write leaves the sheet
\* without data rows, which is neither the prior table nor the new output.
C19_Original ==
    /\ RecordKeptUntilClear
    /\ [](pc = "aborted" /\ stoppedAt = "write" =>
            /\ DataRows(recordSheet) = << >>
            /\ DataRows(recordSheet) # DataRows(priorRecord)
            /\ DataRows(recordSheet) # OutputData(members))

\* C19 amended: the Points Record sheet changes only inside
\* updatePointsRecord; a run ended before the clear leaves every record row
\* as it was; a run ended between the clear and the write leaves the sheet
\* without data rows, which differs from the prior table exactly when that
\* had data rows and from the new output exactly when there is a member.
C19_Amended ==
    /\ RecordKeptUntilClear
    /\ [](pc = "aborted" /\ stoppedAt = "write" =>
            /\ DataRows(recordSheet) = << >>
            /\ \A r \in 2..Len(recordSheet) : recordSheet[r] = << >>
            /\ DataRows(recordSheet) # DataRows(priorRecord)
                   <=> Len(priorRecord) > 1
            /\ DataRows(recordSheet) # OutputData(members)
                   <=> members # << >>)

\* C19 witness: the run was ended between the clear and the write, the prior
\* table had data rows and there is a member to write
C19_Witness ==
    /\ pc = "aborted"
    /\ stoppedAt = "write"
    /\ Len(priorRecord) > 1
    /\ members # << >>
    /\ DataRows(recordSheet) = << >>

\* the positions of '@' in an address, and the text before the first of them
AtSigns(email) == {k \in DOMAIN email : email[k] = "@"}
LocalPart(email) ==
    IF AtSigns(email) = {}
    THEN email
    ELSE SubSeq(email, 1, (CHOOSE k \in AtSigns(email) :
                              \A q \in AtSigns(email) : k <= q) - 1)

\* the text with its capital A folded to lower case
FoldCase(s) == [k \in DOMAIN s |-> IF s[k] = "A" THEN "a" ELSE s[k]]

\* the members whose netID is the given one
MembersNamed(netID) == {m \in DOMAIN members : members[m].netID = netID}

\* C17: the netID of a submission is the part of its email before the first
\* '@', or the whole email when it has none; submissions whose emails share
\* the local part and differ in domain are one member, and submissions whose
\* local parts differ only in case are different members.
C17_NetIDIsLocalPart ==
    /\ \A p \in DOMAIN credits :
           /\ credits[p].netID = LocalPart(formResponses[credits[p].response + 1].email)
           /\ Cardinality(MembersNamed(credits[p].netID)) = 1
    /\ \A p \in DOMAIN credits, q \in DOMAIN credits :
           LET e1 == formResponses[credits[p].response + 1].email
               e2 == formResponses[credits[q].response + 1].email
           IN  /\ LocalPart(e1) = LocalPart(e2)
                      => MembersNamed(credits[p].netID) = MembersNamed(credits[q].netID)
               /\ (LocalPart(e1) # LocalPart(e2)
                   /\ FoldCase(LocalPart(e1)) = FoldCase(LocalPart(e2)))
                      => MembersNamed(credits[p].netID) # MembersNamed(credits[q].netID)
    /\ \A k \in Processed, p \in DOMAIN credits :
           (/\ formResponses[k + 1].eventCode \in DOMAIN eventLookup
            /\ LocalPart(formResponses[k + 1].email) = credits[p].netID
            /\ credits[p].response > k)
               => CreditsOf(k) = {}

\* C17 witness: the run is over; two submissions of one local part under
\* different domains made one member with one credit, and a submission whose
\* local part differs in case made another
C17_Witness ==
    /\ pc = "done"
    /\ Len(members) = 2
    /\ \E k1 \in Processed, k2 \in Processed, k3 \in Processed :
           /\ formResponses[k1 + 1].email = EmailA
           /\ formResponses[k2 + 1].email = EmailAOtherDomain
           /\ formResponses[k3 + 1].email = EmailUpperA
           /\ Cardinality(CreditsOf(k1) \cup CreditsOf(k2)) = 1
           /\ CreditsOf(k3) # {}
    /\ MembersNamed(<<"a">>) # {}
    /\ MembersNamed(<<"A">>) # {}

-----------------------------------------------------------------------------
(* The member bot of index.js lines 1-569: the member-update command *)

ALLOWED_ROLES == {"membership"}

\* COLUMN_ORDER of lines 39-46; the cell of the Name column is a text the
\* handler computes on, so it is a sequence of characters like the names
MEMBER_COLUMN_ORDER ==
    << <<"N", "a", "m", "e">>, "Display_Name", "Discord_Username", "Discord_ID",
       "Points", "Last_Update" >>

\* getColumnIndex of lines 49-51 on the six names of SHEET_COLUMNS, 0-based
NAME == 0
DISPLAY_NAME == NAME + 1
DISCORD_USERNAME == DISPLAY_NAME + 1
DISCORD_ID == DISCORD_USERNAME + 1
POINTS == DISCORD_ID + 1
LAST_UPDATE == POINTS + 1

\* capitalize: every word gets its first letter in upper case and the others
\* in lower case; the words are what lies between single spaces
capitalize(value) ==
    [k \in 1..Len(value) |->
        IF value[k] = " " THEN " "
        ELSE IF k = 1 \/ value[k - 1] = " " THEN UpperOf(value[k])
        ELSE LowerOf(value[k])]

\* an option that was not given (options.getString and getInteger give null)
NoOption == ""
NoPoints == [given |-> FALSE, value |-> 0]

\* rows[index][column] = value
SetCell(rows, index, column, value) ==
    [rows EXCEPT ![index + 1] = [@ EXCEPT ![column + 1] = value]]

\* rows.findIndex: the first of the matching indices, or -1
FindRowIndex(matching) ==
    IF matching = {}
    THEN 0 - 1
    ELSE CHOOSE k \in matching : \A q \in matching : k <= q

\* lines 264: the invoker has one of ALLOWED_ROLES
isAllowedRole(interaction) == \E role \in ALLOWED_ROLES : role \in interaction.roles

\* line 268-270: the row below the header whose Discord_ID is the discord_id
\* option
targetRowIndex(rows, interaction) ==
    FindRowIndex({k \in 1..(Len(rows) - 1) :
                     rows[k + 1][DISCORD_ID + 1] = interaction.options.discord_id})

\* lines 321-323: the row below the header whose Name is the capitalized name,
\* in any case of letters
existingRowIndex(rows, interaction) ==
    FindRowIndex({k \in 1..(Len(rows) - 1) :
                     toLowerCase(rows[k + 1][NAME + 1]) =
                         toLowerCase(capitalize(interaction.options.name))})

\* lines 296-304 and 360-368: the points cell when the points option is given
WithPoints(rows, index, pointsValue) ==
    IF pointsValue.given /\ rows[index + 1][POINTS + 1] # ToString(pointsValue.value)
    THEN SetCell(rows, index, POINTS, ToString(pointsValue.value))
    ELSE rows

\* moment().tz('America/Chicago').format('YYYY-MM-DD HH:mm:ss') of line 261
Now == "2026-01-02 10:00:00"

\* the handler of the lines 236-465 that is given the interaction
Handling(h, position, commandName) ==
    /\ handlers[h].pc = position
    /\ handlers[h].interaction.commandName = commandName

\* the handler goes on to the position with these rows
GoOn(h, position, rows) ==
    handlers' = [handlers EXCEPT ![h].pc = position, ![h].rows = rows]

\* interaction.reply(content)
Reply(h, content) ==
    replies' = [replies EXCEPT ![h] = [content |-> content, names |-> << >>,
                                       files |-> {}]]

\* one more read of a sheet, write of a sheet or sending of a file
Effect(h, kind, target, rows) ==
    effects' = effects \cup {[handler |-> h, kind |-> kind, target |-> target,
                              rows |-> rows]}

\* the member-update commands that members send: points are set by the
\* member u1 in the role 'membership', and the Discord ID of no member is
\* asked for under one name
MemberUpdates ==
    {m \in [commandName : {"member-update"},
            user        : {"u1", "u3"},
            roles       : {{"membership"}, {"Membership"}},
            options     : [name       : {<<"a", "l">>, <<"B", "O">>, <<"c", "y">>},
                           points     : {NoPoints, [given |-> TRUE, value |-> 5]},
                           discord_id : {NoOption, "u2", "u9"}]] :
        /\ m.options.points.given => m.user = "u1" /\ m.roles = {"membership"}
        /\ m.options.discord_id = "u9" =>
               /\ m.options.name = <<"a", "l">>
               /\ m.user = "u1"
               /\ ~m.options.points.given}

\* line 236: the client emits 'interactionCreate' with a member-update command
MemberUpdateCreate(h) ==
    /\ handlers[h].pc = "idle"
    /\ \E interaction \in MemberUpdates :
           handlers' = [handlers EXCEPT ![h] =
               [pc |-> "fetchSheetData", interaction |-> interaction, rows |-> << >>]]
    /\ UNCHANGED <<memberSheet, replies, effects, sheetVars, scriptVars>>

\* lines 242-248: the rows of the sheet are fetched, the header being added to
\* a sheet that has no row
MemberFetchSheetData(h) ==
    /\ Handling(h, "fetchSheetData", "member-update")
    /\ LET rows == IF Len(memberSheet) = 0 THEN <<MEMBER_COLUMN_ORDER>> ELSE memberSheet
       IN  /\ GoOn(h, "member-update", rows)
           /\ Effect(h, "read", "members", rows)
    /\ UNCHANGED <<memberSheet, replies, sheetVars, scriptVars>>

\* lines 267-281: an allowed role names a Discord ID that no row has
MemberUpdateNotFound(h) ==
    /\ Handling(h, "member-update", "member-update")
    /\ LET interaction == handlers[h].interaction
           rows == handlers[h].rows
       IN  /\ interaction.options.discord_id # NoOption /\ isAllowedRole(interaction)
           /\ targetRowIndex(rows, interaction) = 0 - 1
           /\ Reply(h, "No member found with Discord ID")
           /\ GoOn(h, "done", rows)
    /\ UNCHANGED <<memberSheet, effects, sheetVars, scriptVars>>

\* lines 267-292 and 398-404: an allowed role names the Discord ID of a row
\* whose name is not the capitalized name; line 292 reads targetRondex, which
\* is declared nowhere, so a ReferenceError is thrown, the catch of line 398
\* replies, and writeSheetData of line 397 is not reached
MemberUpdateRenameThrows(h) ==
    /\ Handling(h, "member-update", "member-update")
    /\ LET interaction == handlers[h].interaction
           rows == handlers[h].rows
           target == targetRowIndex(rows, interaction)
       IN  /\ interaction.options.discord_id # NoOption /\ isAllowedRole(interaction)
           /\ target # 0 - 1
           /\ rows[target + 1][NAME + 1] # capitalize(interaction.options.name)
           /\ Reply(h, "An error occurred while processing your update command.")
           /\ GoOn(h, "done", rows)
    /\ UNCHANGED <<memberSheet, effects, sheetVars, scriptVars>>

\* lines 267-318: an allowed role names the Discord ID of a row that has the
\* capitalized name: points when given, the timestamp, and the reply
MemberUpdateOther(h) ==
    /\ Handling(h, "member-update", "member-update")
    /\ LET interaction == handlers[h].interaction
           rows == handlers[h].rows
           target == targetRowIndex(rows, interaction)
       IN  /\ interaction.options.discord_id # NoOption /\ isAllowedRole(interaction)
           /\ target # 0 - 1
           /\ rows[target + 1][NAME + 1] = capitalize(interaction.options.name)
           /\ Reply(h, "Updated data for member")
           /\ GoOn(h, "writeSheetData",
                   SetCell(WithPoints(rows, target, interaction.options.points),
                           target, LAST_UPDATE, Now))
    /\ UNCHANGED <<memberSheet, effects, sheetVars, scriptVars>>

\* the display name and the username of a Discord user
DisplayNameOf(user) == IF user = "u1" THEN "Al L" ELSE "Cy C"
UsernameOf(user) == IF user = "u1" THEN "al01" ELSE "cy03"

\* lines 325-343: no row has the name, so a row is added for the invoker
MemberUpdateAdd(h) ==
    /\ Handling(h, "member-update", "member-update")
    /\ LET interaction == handlers[h].interaction
           rows == handlers[h].rows
           pointsValue == interaction.options.points
           newRow == <<capitalize(interaction.options.name),
                       DisplayNameOf(interaction.user), UsernameOf(interaction.user),
                       interaction.user,
                       IF pointsValue.given /\ pointsValue.value # 0
                       THEN ToString(pointsValue.value) ELSE "0",
                       Now>>
       IN  /\ ~(interaction.options.discord_id # NoOption /\ isAllowedRole(interaction))
           /\ existingRowIndex(rows, interaction) = 0 - 1
           /\ Reply(h, "Added new member")
           /\ GoOn(h, "writeSheetData", Append(rows, newRow))
    /\ UNCHANGED <<memberSheet, effects, sheetVars, scriptVars>>

\* lines 344-382: the row of the name is the invoker's own
MemberUpdateOwn(h) ==
    /\ Handling(h, "member-update", "member-update")
    /\ LET interaction == handlers[h].interaction
           rows == handlers[h].rows
           existing == existingRowIndex(rows, interaction)
       IN  /\ ~(interaction.options.discord_id # NoOption /\ isAllowedRole(interaction))
           /\ existing # 0 - 1
           /\ rows[existing + 1][DISCORD_ID + 1] = interaction.user
           /\ Reply(h, "Updated data for")
           /\ GoOn(h, "writeSheetData",
                   SetCell(WithPoints(
                       SetCell(SetCell(rows, existing, DISPLAY_NAME,
                                       DisplayNameOf(interaction.user)),
                               existing, DISCORD_USERNAME, UsernameOf(interaction.user)),
                       existing, interaction.options.points),
                       existing, LAST_UPDATE, Now))
    /\ UNCHANGED <<memberSheet, effects, sheetVars, scriptVars>>

\* lines 383-393: the row of the name is another member's
MemberUpdateDenied(h) ==
    /\ Handling(h, "member-update", "member-update")
    /\ LET interaction == handlers[h].interaction
           rows == handlers[h].rows
           existing == existingRowIndex(rows, interaction)
       IN  /\ ~(interaction.options.discord_id # NoOption /\ isAllowedRole(interaction))
           /\ existing # 0 - 1
           /\ rows[existing + 1][DISCORD_ID + 1] # interaction.user
           /\ Reply(h, "You do not have permission to update this member's data.")
           /\ GoOn(h, "done", rows)
    /\ UNCHANGED <<memberSheet, effects, sheetVars, scriptVars>>

\* spreadsheets.values.update over the range of a sheet: the rows given take
\* the place of the first rows of the sheet, the rows below them stay
ValuesUpdate(sheet, rows) ==
    [k \in 1..(IF Len(sheet) > Len(rows) THEN Len(sheet) ELSE Len(rows)) |->
        IF k <= Len(rows) THEN rows[k] ELSE sheet[k]]

\* line 397: writeSheetData(sheets, rows)
MemberWriteSheetData(h) ==
    /\ Handling(h, "writeSheetData", "member-update")
    /\ memberSheet' = ValuesUpdate(memberSheet, handlers[h].rows)
    /\ Effect(h, "write", "members", handlers[h].rows)
    /\ GoOn(h, "done", handlers[h].rows)
    /\ UNCHANGED <<replies, sheetVars, scriptVars>>

\* the member sheet before the commands: two members, or no row at all
MemberRows ==
    <<MEMBER_COLUMN_ORDER,
      << <<"A", "l">>, "Al L", "al01", "u1", "3", "2025-12-01 09:00:00" >>,
      << <<"B", "o">>, "Bo B", "bo02", "u2", "5", "2025-12-01 09:00:00" >> >>

InitMember ==
    /\ SheetsFrom({<< >>}, {<< >>}, {<< >>}, {<< >>})
    /\ present = AllSheets
    /\ RunInit
    /\ NoCallInit
    /\ NoOverlapInit
    /\ NoTriggerInit
    /\ memberSheet \in {<< >>, MemberRows}
    /\ handlers = [h \in HandlerIds |-> IdleHandler]
    /\ replies = [h \in HandlerIds |-> NoReply]
    /\ effects = {}

NextMember ==
    \E h \in HandlerIds :
        \/ MemberUpdateCreate(h)
        \/ MemberFetchSheetData(h)
        \/ MemberUpdateNotFound(h)
        \/ MemberUpdateRenameThrows(h)
        \/ MemberUpdateOther(h)
        \/ MemberUpdateAdd(h)
        \/ MemberUpdateOwn(h)
        \/ MemberUpdateDenied(h)
        \/ MemberWriteSheetData(h)

SpecMember == InitMember /\ [][NextMember]_vars

-----------------------------------------------------------------------------
(* The leaderboard bot of index.js lines 570-1831: configuration and utilities *)

STAFF_ROLES == {"Technical", "Membership", "Professional"}
ADMIN_ROLES == {"Membership"}

EVENTS_SHEET == "Event Codes"
POINTS_SHEET == "Points Record"
TYPES_SHEET == "Points System"
ATTENDANCE_QR_PATH == "./assets/attendance-qr.png"

\* PERMISSION_LEVELS
USER == "USER"
STAFF == "STAFF"
ADMIN == "ADMIN"

\* checkPermissions, on the names of the roles of the invoker
checkPermissions(interaction, requiredLevel) ==
    LET memberRoles == interaction.roles
    IN  CASE requiredLevel = USER -> TRUE
          [] requiredLevel = STAFF ->
                 \/ \E role \in STAFF_ROLES : role \in memberRoles
                 \/ \E role \in ADMIN_ROLES : role \in memberRoles
          [] requiredLevel = ADMIN -> \E role \in ADMIN_ROLES : role \in memberRoles
          [] OTHER -> FALSE

\* String.prototype.trim, the white space being the space character
RECURSIVE trimStart(_)
trimStart(s) ==
    IF s # << >> /\ Head(s) = " " THEN trimStart(Tail(s)) ELSE s

RECURSIVE trimEnd(_)
trimEnd(s) ==
    IF s # << >> /\ s[Len(s)] = " " THEN trimEnd(SubSeq(s, 1, Len(s) - 1)) ELSE s

trim(s) == trimEnd(trimStart(s))

\* an anonymity test that looks for 'yes' in the cell, as the sheet script does
isAnonymousWhenYes(anonymousValue) ==
    includes(toLowerCase(anonymousValue), <<"y", "e", "s">>)

\* isAnonymous: a cell that is undefined or the empty text is anonymous, and
\* so is every text but 'false' and 'no' in any case and between any spaces
isAnonymous(anonymousValue) ==
    IF anonymousValue = << >>
    THEN TRUE
    ELSE LET value == trim(toLowerCase(anonymousValue))
         IN  ~(value = <<"f", "a", "l", "s", "e">> \/ value = <<"n", "o">>)

\* the digits, and the number a text of digits denotes
Digits == <<"0", "1", "2", "3", "4", "5", "6", "7", "8", "9">>
IsDigit(c) == \E k \in DOMAIN Digits : Digits[k] = c
DigitValue(c) == (CHOOSE k \in DOMAIN Digits : Digits[k] = c) - 1
AllDigits(s) == s # << >> /\ \A k \in DOMAIN s : IsDigit(s[k])

RECURSIVE NumberOf(_)
NumberOf(s) ==
    IF s = << >> THEN 0
    ELSE 10 * NumberOf(SubSeq(s, 1, Len(s) - 1)) + DigitValue(s[Len(s)])

\* the text of a number, with zeros in front up to the width
RECURSIVE Padded(_, _)
Padded(n, width) ==
    IF width <= 1 /\ n < 10
    THEN <<Digits[n + 1]>>
    ELSE Append(Padded(n \div 10, width - 1), Digits[(n % 10) + 1])

\* a parse that found no format: null, of which the handlers test the
\* truthiness only; no formatted text is empty
NoParse == << >>

\* the parts of a text between the occurrences of a separator
SeparatorsIn(s, sep) == {k \in DOMAIN s : s[k] = sep}

PartsOf(s, sep) ==
    LET first == CHOOSE k \in SeparatorsIn(s, sep) :
                     \A q \in SeparatorsIn(s, sep) : k <= q
        last == CHOOSE k \in SeparatorsIn(s, sep) :
                    \A q \in SeparatorsIn(s, sep) : q <= k
    IN  <<SubSeq(s, 1, first - 1), SubSeq(s, first + 1, last - 1),
          SubSeq(s, last + 1, Len(s))>>

\* the days of a month of the Gregorian calendar
IsLeapYear(year) == (year % 4 = 0 /\ year % 100 # 0) \/ year % 400 = 0

DaysInMonth(year, month) ==
    IF month = 2 THEN (IF IsLeapYear(year) THEN 29 ELSE 28)
    ELSE IF month \in {4, 6, 9, 11} THEN 30 ELSE 31

\* moment(...).format('YYYY-MM-DD') of a valid date
FormatDate(year, month, day) ==
    Padded(year, 4) \o <<"-">> \o Padded(month, 2) \o <<"-">> \o Padded(day, 2)

\* what a valid date gives, and what another one gives
DateOrNoParse(year, month, day) ==
    IF month \in 1..12 /\ day >= 1 /\ day <= DaysInMonth(year, month)
    THEN FormatDate(year, month, day)
    ELSE NoParse

\* the strict formats of parseDate under one separator: month, day and a year
\* of two or four digits ('M/D/YY', 'M/D/YYYY', 'MM/DD/YY', 'MM/DD/YYYY'), or a
\* year of four digits, month and day of two ('YYYY-MM-DD'); a year of two
\* digits above 68 is of the 1900s, another one of the 2000s
parseDateWith(dateStr, sep) ==
    IF Cardinality(SeparatorsIn(dateStr, sep)) # 2
    THEN NoParse
    ELSE LET parts == PartsOf(dateStr, sep)
         IN  IF ~(\A k \in 1..3 : AllDigits(parts[k]))
             THEN NoParse
             ELSE IF Len(parts[1]) <= 2 /\ Len(parts[2]) <= 2 /\ Len(parts[3]) = 2
             THEN DateOrNoParse(IF NumberOf(parts[3]) > 68
                                THEN 1900 + NumberOf(parts[3])
                                ELSE 2000 + NumberOf(parts[3]),
                                NumberOf(parts[1]), NumberOf(parts[2]))
             ELSE IF Len(parts[1]) <= 2 /\ Len(parts[2]) <= 2 /\ Len(parts[3]) = 4
             THEN DateOrNoParse(NumberOf(parts[3]), NumberOf(parts[1]),
                                NumberOf(parts[2]))
             ELSE IF Len(parts[1]) = 4 /\ Len(parts[2]) = 2 /\ Len(parts[3]) = 2
             THEN DateOrNoParse(NumberOf(parts[1]), NumberOf(parts[2]),
                                NumberOf(parts[3]))
             ELSE NoParse

\* parseDate: the formats with '/' and those with '-'
parseDate(dateStr) ==
    IF parseDateWith(dateStr, "/") # NoParse
    THEN parseDateWith(dateStr, "/")
    ELSE parseDateWith(dateStr, "-")

\* timeStr.replace(/\s+/g, '')
removeWhitespace(s) == SelectSeq(s, LAMBDA c : c # " ")

\* no time of day
NoTime == 0 - 1

\* the minutes after midnight of an hour of 0 to 24 and its minutes, 24:00
\* being the midnight that follows
ClockTime(hour, minute) ==
    IF minute \in 0..59 /\ (hour \in 0..23 \/ (hour = 24 /\ minute = 0))
    THEN (hour % 24) * 60 + minute
    ELSE NoTime

\* the hour and the minutes of 'h', 'H', 'h:mm' and 'H:mm': one or two digits,
\* and two digits after the colon
HourOf(s) ==
    IF SeparatorsIn(s, ":") = {} THEN s
    ELSE SubSeq(s, 1, (CHOOSE k \in SeparatorsIn(s, ":") : TRUE) - 1)

MinuteOf(s) ==
    IF SeparatorsIn(s, ":") = {} THEN <<"0", "0">>
    ELSE SubSeq(s, (CHOOSE k \in SeparatorsIn(s, ":") : TRUE) + 1, Len(s))

WellFormedClock(s) ==
    /\ Cardinality(SeparatorsIn(s, ":")) <= 1
    /\ AllDigits(HourOf(s)) /\ Len(HourOf(s)) <= 2
    /\ AllDigits(MinuteOf(s)) /\ Len(MinuteOf(s)) = 2

\* the time of day a normalized text denotes under the strict formats 'h:mma'
\* and 'ha' (an hour of 1 to 12 with am or pm) and 'H:mm', 'HH:mm', 'H', 'HH'
\* (an hour of 0 to 24); the formats with a space match no normalized text
TimeOfDay(normalized) ==
    LET n == Len(normalized)
        meridiem == IF n >= 2 THEN SubSeq(normalized, n - 1, n) ELSE << >>
        clock == IF meridiem \in {<<"a", "m">>, <<"p", "m">>}
                 THEN SubSeq(normalized, 1, n - 2)
                 ELSE normalized
        hour == NumberOf(HourOf(clock))
        minute == NumberOf(MinuteOf(clock))
    IN  IF ~WellFormedClock(clock) THEN NoTime
        ELSE IF meridiem = <<"a", "m">>
        THEN (IF hour \in 1..12 THEN ClockTime(hour % 12, minute) ELSE NoTime)
        ELSE IF meridiem = <<"p", "m">>
        THEN (IF hour \in 1..12 THEN ClockTime((hour % 12) + 12, minute) ELSE NoTime)
        ELSE ClockTime(hour, minute)

\* moment(...).format('h:mm A')
FormatTime(minutes) ==
    LET hour == minutes \div 60
    IN  Padded(IF hour % 12 = 0 THEN 12 ELSE hour % 12, 1) \o <<":">>
            \o Padded(minutes % 60, 2)
            \o (IF hour < 12 THEN <<" ", "A", "M">> ELSE <<" ", "P", "M">>)

\* parseTime
parseTime(timeStr) ==
    LET normalized == removeWhitespace(toLowerCase(trim(timeStr)))
    IN  IF timeStr = << >> \/ TimeOfDay(normalized) = NoTime
        THEN NoParse
        ELSE FormatTime(TimeOfDay(normalized))

\* moment(text, 'h:mm A') of a text that parseTime formatted
MomentOf(formatted) == TimeOfDay(removeWhitespace(toLowerCase(formatted)))

\* a comparison of the times that lets an event end when it starts
isTimeAfterOrSame(startTime, endTime) == MomentOf(endTime) >= MomentOf(startTime)

\* isTimeAfter
isTimeAfter(startTime, endTime) == MomentOf(endTime) > MomentOf(startTime)

-----------------------------------------------------------------------------
(* The leaderboard bot: the sheets service and the command handlers *)

\* COLUMN_ORDER of lines 641-662
COLUMN_ORDER(sheetType) ==
    CASE sheetType = "EVENTS" -> EventHeader
      [] sheetType = "TYPES" -> PointsHeader
      [] sheetType = "POINTS" -> RecordHeader

\* getColumnIndex of lines 674-676: the names of SHEET_COLUMNS differ in more
\* than the case of their letters, so the index is that of the name itself
getColumnIndex(sheetType, columnName) ==
    (CHOOSE k \in DOMAIN COLUMN_ORDER(sheetType) :
         COLUMN_ORDER(sheetType)[k] = columnName) - 1

\* row[index] || fallback: a cell the row does not reach is undefined
CellOr(row, index, fallback) ==
    IF index + 1 <= Len(row) THEN row[index + 1] ELSE fallback

\* GoogleSheetsService.fetchSheetData: the rows of the sheet, or the header
\* alone when the sheet has no row
fetchSheetData(sheet, sheetType) ==
    IF Len(sheet) = 0 THEN <<COLUMN_ORDER(sheetType)>> ELSE sheet

\* const permissionLevel of each handler
permissionLevel(commandName) ==
    CASE commandName = "view-leaderboard" -> USER
      [] commandName = "membership-logs" -> ADMIN
      [] commandName = "add-event" -> STAFF
      [] commandName = "show-event-list" -> STAFF
      [] commandName = "get-attendance-qr" -> STAFF
      [] commandName = "show-point-system" -> USER

\* interaction.reply with a content, the entries it lists and the files
\* attached to it
ReplyWith(h, content, names, files) ==
    replies' = [replies EXCEPT ![h] = [content |-> content, names |-> names,
                                       files |-> files]]

PermissionDenied == "You do not have permission to use this command."

\* a handler that takes every invoker for permitted
PermittedAlways(h) == TRUE

\* the handler has passed the test of checkPermissions at its head
Permitted(h) ==
    checkPermissions(handlers[h].interaction,
                     permissionLevel(handlers[h].interaction.commandName))

\* the head of every handler (lines 925-939, 1044-1057, 1158-1170, 1327-1340,
\* 1439-1452, 1510-1522): an invoker below the level gets the reply and the
\* handler returns
Refuse(h) ==
    /\ handlers[h].pc = "handle"
    /\ ~Permitted(h)
    /\ Reply(h, PermissionDenied)
    /\ GoOn(h, "done", << >>)
    /\ UNCHANGED <<memberSheet, effects, sheetVars, scriptVars>>

\* --- add-event ---

\* the new row of lines 1262-1269
NewEventRow(options) ==
    <<parseDate(options.date), parseTime(options.startTime),
      parseTime(options.endTime), options.eventName, options.eventType,
      options.eventCode>>

\* the reply of the first validation of lines 1181-1256 that fails, or none
AddEventInvalidReply(options) ==
    IF parseDate(options.date) = NoParse THEN "Invalid date format"
    ELSE IF parseTime(options.startTime) = NoParse THEN "Invalid start time format"
    ELSE IF parseTime(options.endTime) = NoParse THEN "Invalid end time format"
    ELSE IF ~isTimeAfter(parseTime(options.startTime), parseTime(options.endTime))
    THEN "End time must be after start time"
    ELSE ""

\* lines 1181-1256: a date or time that does not parse, or an end that is not
\* after the start, is answered and the handler returns
AddEventInvalid(h) ==
    /\ Handling(h, "handle", "add-event")
    /\ Permitted(h)
    /\ AddEventInvalidReply(handlers[h].interaction.options) # ""
    /\ Reply(h, AddEventInvalidReply(handlers[h].interaction.options))
    /\ GoOn(h, "done", << >>)
    /\ UNCHANGED <<memberSheet, effects, sheetVars, scriptVars>>

\* lines 1259-1272: the rows are fetched and the new row is pushed
AddEventFetch(h) ==
    /\ Handling(h, "handle", "add-event")
    /\ Permitted(h)
    /\ AddEventInvalidReply(handlers[h].interaction.options) = ""
    /\ LET rows == fetchSheetData(eventSheet, "EVENTS")
       IN  /\ Effect(h, "read", EVENTS_SHEET, rows)
           /\ GoOn(h, "writeSheetData",
                   Append(rows, NewEventRow(handlers[h].interaction.options)))
    /\ UNCHANGED <<memberSheet, replies, sheetVars, scriptVars>>

\* line 1275: writeSheetData(EVENTS_SHEET, 'EVENTS', rows)
AddEventWrite(h) ==
    /\ Handling(h, "writeSheetData", "add-event")
    /\ eventSheet' = ValuesUpdate(eventSheet, handlers[h].rows)
    /\ Effect(h, "write", EVENTS_SHEET, handlers[h].rows)
    /\ GoOn(h, "reply", handlers[h].rows)
    /\ UNCHANGED <<memberSheet, replies, formSheet, pointsSheet, recordSheet,
                   scriptVars>>

EventAdded == "Event added successfully!"

\* lines 1295-1302: the success message
AddEventReply(h) ==
    /\ Handling(h, "reply", "add-event")
    /\ Reply(h, EventAdded)
    /\ GoOn(h, "done", handlers[h].rows)
    /\ UNCHANGED <<memberSheet, effects, sheetVars, scriptVars>>

\* --- view-leaderboard ---

\* row[pointsIndex] && !isNaN(row[pointsIndex]), for cells that are texts of
\* digits between spaces, or texts with other characters
HasValidPoints(row) ==
    AllDigits(trim(CellOr(row, getColumnIndex("POINTS", "Points"), << >>)))

Anonymous == <<"A", "n", "o", "n", "y", "m", "o", "u", "s">>
Unknown == <<"U", "n", "k", "n", "o", "w", "n">>

\* `${firstName} ${lastName}`.trim() || 'Unknown'
FullName(row) ==
    LET firstName == CellOr(row, getColumnIndex("POINTS", "First Name"), << >>)
        lastName == CellOr(row, getColumnIndex("POINTS", "Last Name"), << >>)
        fullName == trim(firstName \o <<" ">> \o lastName)
    IN  IF fullName = << >> THEN Unknown ELSE fullName

\* lines 966-975: the entry of a row
EntryOf(row) ==
    [name   |-> IF isAnonymous(CellOr(row, getColumnIndex("POINTS", "Anonymous"),
                                      << >>))
                THEN Anonymous ELSE FullName(row),
     points |-> NumberOf(trim(row[getColumnIndex("POINTS", "Points") + 1]))]

\* text.padEnd(width, ' ').substring(0, width)
PadEnd(text, width) ==
    [k \in 1..width |-> IF k <= Len(text) THEN text[k] ELSE " "]

\* .sort((a, b) => b.points - a.points): by points, the larger first, entries
\* of equal points in the order they had
RECURSIVE SortByPoints(_)
SortByPoints(entries) ==
    IF entries = << >> THEN << >>
    ELSE LET best == CHOOSE k \in DOMAIN entries :
                         /\ \A q \in DOMAIN entries : entries[q].points <= entries[k].points
                         /\ \A q \in 1..(k - 1) : entries[q].points < entries[k].points
         IN  <<entries[best]>> \o
                 SortByPoints(SubSeq(entries, 1, best - 1) \o
                              SubSeq(entries, best + 1, Len(entries)))

\* .slice(0, count)
Slice(seq, count) == SubSeq(seq, 1, IF count < Len(seq) THEN count ELSE Len(seq))

\* lines 963-978 and 998-1003: the lines of the table
LeaderboardOf(rows) ==
    LET valid == SelectSeq(Tail(rows), HasValidPoints)
        processedData == Slice(SortByPoints([k \in DOMAIN valid |-> EntryOf(valid[k])]),
                               15)
    IN  [k \in DOMAIN processedData |->
            [name   |-> PadEnd(processedData[k].name, 23),
             points |-> processedData[k].points]]

\* line 942: the rows of the Points Record sheet are fetched
ViewLeaderboardFetch(h) ==
    /\ Handling(h, "handle", "view-leaderboard")
    /\ Permitted(h)
    /\ LET rows == fetchSheetData(recordSheet, "POINTS")
       IN  /\ Effect(h, "read", POINTS_SHEET, rows)
           /\ GoOn(h, "reply", rows)
    /\ UNCHANGED <<memberSheet, replies, sheetVars, scriptVars>>

\* lines 944-1007: the reply
ViewLeaderboardReply(h) ==
    /\ Handling(h, "reply", "view-leaderboard")
    /\ LET rows == handlers[h].rows
       IN  IF Len(rows) <= 1
           THEN Reply(h, "No leaderboard data available.")
           ELSE IF LeaderboardOf(rows) = << >>
           THEN Reply(h, "No valid leaderboard data available.")
           ELSE ReplyWith(h, "LEADERBOARD - TOP 15", LeaderboardOf(rows), {})
    /\ GoOn(h, "done", handlers[h].rows)
    /\ UNCHANGED <<memberSheet, effects, sheetVars, scriptVars>>

\* --- show-point-system ---

\* line 1525
ShowPointSystemFetch(h) ==
    /\ Handling(h, "handle", "show-point-system")
    /\ Permitted(h)
    /\ LET rows == fetchSheetData(pointsSheet, "TYPES")
       IN  /\ Effect(h, "read", TYPES_SHEET, rows)
           /\ GoOn(h, "reply", rows)
    /\ UNCHANGED <<memberSheet, replies, sheetVars, scriptVars>>

\* lines 1527-1557: the rows below the header, as they are listed
ShowPointSystemReply(h) ==
    /\ Handling(h, "reply", "show-point-system")
    /\ LET rows == handlers[h].rows
       IN  IF Len(rows) <= 1
           THEN Reply(h, "No point system data available.")
           ELSE ReplyWith(h, "POINT SYSTEM",
                          [k \in 1..(Len(rows) - 1) |->
                              <<CellOr(rows[k + 1], getColumnIndex("TYPES", "Event Type"),
                                       "Unknown"),
                                CellOr(rows[k + 1], getColumnIndex("TYPES", "Points"),
                                       "0")>>],
                          {})
    /\ GoOn(h, "done", handlers[h].rows)
    /\ UNCHANGED <<memberSheet, effects, sheetVars, scriptVars>>

\* --- show-event-list ---

\* lines 1363-1365: the sort key of a date cell, 0 for a cell that is not a
\* valid 'YYYY-MM-DD'; the key grows with the date
SortDate(cell) ==
    IF Len(cell) = 10 /\ parseDateWith(cell, "-") = cell
    THEN NumberOf(SubSeq(cell, 1, 4)) * 10000 + NumberOf(SubSeq(cell, 6, 7)) * 100
             + NumberOf(SubSeq(cell, 9, 10))
    ELSE 0

\* .sort((a, b) => b.sortDate - a.sortDate)
RECURSIVE SortByDate(_)
SortByDate(rows) ==
    IF rows = << >> THEN << >>
    ELSE LET key(k) == SortDate(CellOr(rows[k], getColumnIndex("EVENTS", "Date"), << >>))
             best == CHOOSE k \in DOMAIN rows :
                         /\ \A q \in DOMAIN rows : key(q) <= key(k)
                         /\ \A q \in 1..(k - 1) : key(q) < key(k)
         IN  <<rows[best]>> \o
                 SortByDate(SubSeq(rows, 1, best - 1) \o
                            SubSeq(rows, best + 1, Len(rows)))

\* line 1342
ShowEventListFetch(h) ==
    /\ Handling(h, "handle", "show-event-list")
    /\ Permitted(h)
    /\ LET rows == fetchSheetData(eventSheet, "EVENTS")
       IN  /\ Effect(h, "read", EVENTS_SHEET, rows)
           /\ GoOn(h, "reply", rows)
    /\ UNCHANGED <<memberSheet, replies, sheetVars, scriptVars>>

\* lines 1344-1414: the events, the most recent first, the first
\* number-of-events of them when the option is given
ShowEventListReply(h) ==
    /\ Handling(h, "reply", "show-event-list")
    /\ LET rows == handlers[h].rows
           numberOfEvents == handlers[h].interaction.options.numberOfEvents
           eventData == SortByDate(Tail(rows))
       IN  IF Len(rows) <= 1
           THEN Reply(h, "No events available.")
           ELSE ReplyWith(h, IF numberOfEvents # 0 THEN "RECENT EVENTS" ELSE "ALL EVENTS",
                          IF numberOfEvents # 0 THEN Slice(eventData, numberOfEvents)
                          ELSE eventData,
                          {})
    /\ GoOn(h, "done", handlers[h].rows)
    /\ UNCHANGED <<memberSheet, effects, sheetVars, scriptVars>>

\* --- get-attendance-qr ---

\* lines 1454-1476: the image is attached when the file exists
GetAttendanceQR(h) ==
    /\ Handling(h, "handle", "get-attendance-qr")
    /\ Permitted(h)
    /\ \E exists \in BOOLEAN :
           IF exists
           THEN /\ ReplyWith(h, "Attendance QR Code", << >>, {ATTENDANCE_QR_PATH})
                /\ Effect(h, "file", ATTENDANCE_QR_PATH, << >>)
           ELSE /\ Reply(h, "Attendance QR code file not found. Please contact an administrator.")
                /\ UNCHANGED effects
    /\ GoOn(h, "done", << >>)
    /\ UNCHANGED <<memberSheet, sheetVars, scriptVars>>

\* --- membership-logs ---

LogFile == "logs/bot.log"

\* lines 1059-1068 and 1084-1149: the log of the date is shown, or attached;
\* a log that does not exist, or a view above 2000 characters, is answered
\* without its content
MembershipLogs(h) ==
    /\ Handling(h, "handle", "membership-logs")
    /\ Permitted(h)
    /\ \E exists \in BOOLEAN, large \in BOOLEAN :
           IF ~exists
           THEN /\ Reply(h, "No log file found for the specified date")
                /\ UNCHANGED effects
           ELSE IF handlers[h].interaction.options.action = "download"
           THEN /\ ReplyWith(h, "Here are the logs", << >>, {LogFile})
                /\ Effect(h, "file", LogFile, << >>)
           ELSE IF large
           THEN /\ Reply(h, "Log data is too large to display. Use the \"Download\" option.")
                /\ UNCHANGED effects
           ELSE /\ ReplyWith(h, "log", << >>, {LogFile})
                /\ Effect(h, "file", LogFile, << >>)
    /\ GoOn(h, "done", << >>)
    /\ UNCHANGED <<memberSheet, sheetVars, scriptVars>>

-----------------------------------------------------------------------------
(* The leaderboard bot: commands under way, two at a time *)

\* the texts of the options of add-event
DateSlashes == <<"1", "/", "1", "5", "/", "2", "5">>
DateNoSuchDay == <<"2", "0", "2", "5", "-", "0", "2", "-", "3", "0">>
StartThreePm == <<"3", "p", "m">>
StartNoSuchHour == <<"2", "5", ":", "0", "0">>
EndFivePm == <<"1", "7", ":", "0", "0">>
EndThreePm == <<"3", ":", "0", "0", " ", "P", "M">>
EndTwoPm == <<"2", " ", "p", "m">>
EndNoTime == <<"s", "o", "o", "n">>

\* the roles invokers hold: none, roles that are no staff role, each staff role
RoleSets == {{}, {"Member", "membership"}, {"Technical"}, {"Membership"},
             {"Professional"}}

\* the options of an add-event that passes every validation, under a code
ValidEvent(eventCode) ==
    [eventName |-> "Demo night", date |-> DateSlashes, startTime |-> StartThreePm,
     endTime |-> EndFivePm, eventType |-> "Social", eventCode |-> eventCode]

NoOptions == [none |-> TRUE]

\* the commands members send: add-event with valid options under two codes by
\* every set of roles, and with one option that fails by the role Technical;
\* the other commands by every set of roles
Commands ==
    [commandName : {"add-event"}, user : {"u1"}, roles : RoleSets,
     options : {ValidEvent("K1"), ValidEvent("K2")}]
    \cup
    [commandName : {"add-event"}, user : {"u1"}, roles : {{"Technical"}},
     options : {[ValidEvent("K1") EXCEPT !.date = DateNoSuchDay],
                [ValidEvent("K1") EXCEPT !.startTime = StartNoSuchHour],
                [ValidEvent("K1") EXCEPT !.endTime = EndNoTime],
                [ValidEvent("K1") EXCEPT !.endTime = EndThreePm],
                [ValidEvent("K1") EXCEPT !.endTime = EndTwoPm]}]
    \cup
    [commandName : {"view-leaderboard", "show-point-system", "get-attendance-qr"},
     user : {"u1"}, roles : RoleSets, options : {NoOptions}]
    \cup
    [commandName : {"show-event-list"}, user : {"u1"}, roles : RoleSets,
     options : {[numberOfEvents |-> 0]}]
    \cup
    [commandName : {"show-event-list"}, user : {"u1"}, roles : {{"Technical"}},
     options : {[numberOfEvents |-> 1]}]
    \cup
    [commandName : {"membership-logs"}, user : {"u1"}, roles : RoleSets,
     options : {[action |-> "view"], [action |-> "download"]}]

\* lines 1605-1633: the client emits 'interactionCreate' with a command of a
\* guild, and the switch calls its handler
InteractionCreate(h) ==
    /\ handlers[h].pc = "idle"
    /\ \E interaction \in Commands :
           handlers' = [handlers EXCEPT ![h] =
               [pc |-> "handle", interaction |-> interaction, rows |-> << >>]]
    /\ UNCHANGED <<memberSheet, replies, effects, sheetVars, scriptVars>>

\* the sheets as spreadsheets.values.get gives them: every cell a text
KickoffRow ==
    <<<<"2", "0", "2", "5", "-", "0", "1", "-", "1", "0">>, <<"6", ":", "0", "0", " ", "P", "M">>, <<"7", ":", "0", "0", " ", "P", "M">>, "Kickoff", "Social", "K0">>

AnnRecord == <<<<"a", "l", "1", "2">>, <<"A", "n", "n">>, <<"L", "e", "e">>, <<"N", "o">>, <<"3">>, <<"2", "0", "2", "5", "-", "0", "1", "-", "1", "0">>>>
GusRecord == <<<<"g", "k", "7">>, <<"G", "u", "s">>, <<"K", "i", "m">>, <<"Y", "e", "s">>, <<"5">>, <<"2", "0", "2", "5", "-", "0", "1", "-", "1", "0">>>>

InitBot ==
    /\ formSheet = <<FormHeader>>
    /\ eventSheet \in {<< >>, <<EventHeader, KickoffRow>>}
    /\ pointsSheet = <<PointsHeader, <<"Social", "1">> >>
    /\ recordSheet = <<RecordHeader, AnnRecord, GusRecord>>
    /\ present = AllSheets
    /\ RunInit
    /\ NoCallInit
    /\ NoOverlapInit
    /\ NoTriggerInit
    /\ NoBotInit

NextBot ==
    \E h \in HandlerIds :
        \/ InteractionCreate(h)
        \/ Refuse(h)
        \/ AddEventInvalid(h)
        \/ AddEventFetch(h)
        \/ AddEventWrite(h)
        \/ AddEventReply(h)
        \/ ViewLeaderboardFetch(h)
        \/ ViewLeaderboardReply(h)
        \/ ShowPointSystemFetch(h)
        \/ ShowPointSystemReply(h)
        \/ ShowEventListFetch(h)
        \/ ShowEventListReply(h)
        \/ GetAttendanceQR(h)
        \/ MembershipLogs(h)

SpecBot == InitBot /\ [][NextBot]_vars

-----------------------------------------------------------------------------
(* The leaderboard bot: view-leaderboard over the cells of the Anonymous column *)

\* the texts an Anonymous cell can hold
AnonymousCells ==
    {<<"n", "o">>, <<"N", "o">>, <<" ", "N", "O", " ">>, <<"f", "a", "l", "s", "e">>, <<"F", "a", "l", "s", "e", " ">>, <<"Y", "e", "s">>, << >>, <<"n", "o", "p", "e">>, <<"n", " ", "o">>, <<"n", "o", "t", " ", "f", "a", "l", "s", "e">>}

\* the rows of two members under a cell each
AnnWith(cell) == <<<<"a", "l", "1", "2">>, <<"A", "n", "n">>, <<"L", "e", "e">>, cell, <<"3">>, <<"2", "0", "2", "5", "-", "0", "1", "-", "1", "0">>>>
GusWith(cell) == <<<<"g", "k", "7">>, <<"G", "u", "s">>, <<"K", "i", "m">>, cell, <<"5">>, <<"2", "0", "2", "5", "-", "0", "1", "-", "1", "0">>>>

\* a row whose Points cell is no number, a row that ends before the Anonymous
\* cell, and a row without names
NoPointsRecord == <<<<"z", "z", "9">>, <<"Z", "o", "e">>, <<"Z", "h", "u">>, <<"N", "o">>, <<"n", "/", "a">>, <<"2", "0", "2", "5", "-", "0", "1", "-", "1", "0">>>>
ShortRecord == <<<<"s", "h", "0">>, <<"S", "a", "m">>, <<"H", "i", "l", "l">>>>
NamelessRecord == <<<<"n", "n", "1">>, << >>, << >>, <<"n", "o">>, <<"4">>, <<"2", "0", "2", "5", "-", "0", "1", "-", "1", "0">>>>

LeaderboardSheets ==
    {<<RecordHeader, AnnWith(a), GusWith(g)>> : a \in AnonymousCells, g \in AnonymousCells}
    \cup {<< >>, <<RecordHeader>>, <<RecordHeader, NoPointsRecord, ShortRecord>>,
          <<RecordHeader, NoPointsRecord, AnnWith(<<"N", "o">>), ShortRecord, NamelessRecord,
            GusWith(<< >>)>>}

\* lines 1605-1614: 'interactionCreate' with a view-leaderboard command
ViewLeaderboardCreate(h) ==
    /\ handlers[h].pc = "idle"
    /\ \E interaction \in {c \in Commands : /\ c.commandName = "view-leaderboard"
                                            /\ c.roles \in {{}, {"Membership"}}} :
           handlers' = [handlers EXCEPT ![h] =
               [pc |-> "handle", interaction |-> interaction, rows |-> << >>]]
    /\ UNCHANGED <<memberSheet, replies, effects, sheetVars, scriptVars>>

InitLeaderboard ==
    /\ formSheet = <<FormHeader>>
    /\ eventSheet = <<EventHeader>>
    /\ pointsSheet = <<PointsHeader>>
    /\ recordSheet \in LeaderboardSheets
    /\ present = AllSheets
    /\ RunInit
    /\ NoCallInit
    /\ NoOverlapInit
    /\ NoTriggerInit
    /\ NoBotInit

NextLeaderboard ==
    \E h \in HandlerIds :
        \/ ViewLeaderboardCreate(h)
        \/ ViewLeaderboardFetch(h)
        \/ ViewLeaderboardReply(h)

SpecLeaderboard == InitLeaderboard /\ [][NextLeaderboard]_vars

-----------------------------------------------------------------------------
(* Claims C21 to C30 *)

\* the window [start - tolerance, end + tolerance] of the call at hand, with
\* start and end anchored on the event's date
CallWindowStart ==
    (call.eventDate \div MsPerDay) * MsPerDay
    + ((call.startTime % MsPerDay) \div MsPerMinute) * MsPerMinute
    - TOLERANCE_MINUTES * MsPerMinute
CallWindowEnd ==
    (call.eventDate \div MsPerDay) * MsPerDay
    + ((call.endTime % MsPerDay) \div MsPerMinute) * MsPerMinute
    + TOLERANCE_MINUTES * MsPerMinute

\* C23: a submission whose calendar date differs from the event's calendar
\* date is never valid, also when its instant lies within 30 minutes of the
\* event's start or end: for an event that starts at 00:10, 23:50 of the day
\* before is not valid; the window does not extend across midnight.
C23_NoValidityAcrossMidnight ==
    ret.returned =>
        /\ (call.timestamp \div MsPerDay # call.eventDate \div MsPerDay) => ~ret.value
        /\ ( /\ call.timestamp = At(0, 23, 50, 0, 0)
             /\ call.startTime = At(3, 0, 10, 0, 0) ) => ~ret.value

\* C23 witness: the call returned false for an instant of another calendar
\* day that lies inside the window: 23:50 of the day before an event that
\* starts at 00:10
C23_Witness ==
    /\ ret.returned
    /\ ~ret.value
    /\ call.timestamp = At(0, 23, 50, 0, 0)
    /\ call.startTime = At(3, 0, 10, 0, 0)
    /\ CallWindowStart <= call.timestamp
    /\ call.timestamp <= CallWindowEnd

\* C24: with a header-only Event Codes sheet the run ends without an Error;
\* there is no event and no lookup entry, every step of the pass skips its
\* submission at the code test and changes nothing else, nothing is
\* credited, and the run clears every data row of the Points Record sheet
\* and writes none.
C24_EmptyCatalogSkipsAll ==
    /\ [](Len(eventSheet) = 1 =>
            /\ error = NoError
            /\ pc # "error"
            /\ credits = << >>
            /\ pc \in {"process", "write", "done"} =>
                   /\ events = << >>
                   /\ eventLookup = EmptyMap
                   /\ members = << >>
            /\ pc = "done" =>
                   /\ DataRows(recordSheet) = << >>
                   /\ \A r \in 2..Len(recordSheet) : recordSheet[r] = << >>)
    /\ [][(Len(eventSheet) = 1 /\ pc = "process" /\ i >= 0) =>
            /\ Response.eventCode \notin DOMAIN eventLookup
            /\ i' = i - 1
            /\ UNCHANGED <<pc, members, submittedEvents, credits, recordSheet>>]_vars

\* C24 witness: the run is over, the catalog had its header only, there were
\* submissions, and the record table had data rows before the run
C24_Witness ==
    /\ pc = "done"
    /\ Len(eventSheet) = 1
    /\ Len(formSheet) = MaxSubs + 1
    /\ Len(priorRecord) > 1
    /\ recordSheet # priorRecord

\* C25: getEventPoints maps each event type to the points of the last row of
\* the Points System sheet that carries the type, a later row overwriting an
\* earlier one; its keys are the types of the rows below the header, so the
\* header row is not an entry.
C25_LastScheduleRowWins ==
    pc \in {"process", "write", "done"} =>
        /\ DOMAIN eventPoints = {pointsSheet[r][1] : r \in 2..Len(pointsSheet)}
        /\ PointsHeader[1] \notin DOMAIN eventPoints
        /\ \A t \in DOMAIN eventPoints :
               eventPoints[t] = pointsSheet[LastScheduleRow(t)][2]

\* C25 witness: the schedule was read from a sheet with two rows of one type
\* and different points, and the map holds the points of the second
C25_Witness ==
    /\ pc = "process"
    /\ Len(pointsSheet) = 3
    /\ pointsSheet[2][1] = pointsSheet[3][1]
    /\ pointsSheet[2][2] # pointsSheet[3][2]
    /\ eventPoints[pointsSheet[3][1]] = pointsSheet[3][2]

\* positions in credits of the entries of the netID
CreditsOfNetID(netID) == {p \in DOMAIN credits : credits[p].netID = netID}

\* the occurrences (event indices) that the netID has claimed
ClaimedOccurrences(netID) ==
    IF netID \in DOMAIN submittedEvents THEN submittedEvents[netID] ELSE {}

\* the point increments of the occurrences of S, each counted once
RECURSIVE PointsOfOccurrences(_)
PointsOfOccurrences(S) ==
    IF S = {}
    THEN 0
    ELSE LET idx == CHOOSE x \in S : TRUE
         IN  PointIncrement(eventPoints, events[idx + 1].eventType)
             + PointsOfOccurrences(S \ {idx})

\* the netIDs of the submissions of the form
FormNetIDs == {extractNetID(formResponses[k].email) : k \in DOMAIN formResponses}

\* C28: at every step of the reverse pass and for every netID, a member
\* aggregate exists exactly when the netID's set of claimed occurrences is
\* not empty, there is one aggregate per such netID, and its points are the
\* sum of the point increments of the event types of the claimed
\* occurrences, each occurrence counted once; every member has a credited
\* submission, so none is written without one.
C28_MemberIffClaimed ==
    pc \in {"process", "write", "done"} =>
        /\ \A netID \in FormNetIDs \cup DOMAIN submittedEvents :
               /\ MembersHas(members, netID) <=> ClaimedOccurrences(netID) # {}
               /\ Cardinality(MembersNamed(netID)) <= 1
        /\ \A k \in DOMAIN members :
               /\ members[k].points
                  = PointsOfOccurrences(ClaimedOccurrences(members[k].netID))
               /\ ClaimedOccurrences(members[k].netID)
                  = {credits[p].index : p \in CreditsOfNetID(members[k].netID)}
               /\ CreditsOfNetID(members[k].netID) # {}
        /\ pc = "done" =>
               \A r \in DOMAIN DataRows(recordSheet) :
                   \E p \in DOMAIN credits :
                       credits[p].netID = DataRows(recordSheet)[r][1]

\* C28 witness: during the pass a member has claimed two occurrences whose
\* types have different increments, and another netID was handled without
\* a claim and has no aggregate
C28_Witness ==
    /\ pc = "process"
    /\ \E k \in DOMAIN members :
           /\ Cardinality(ClaimedOccurrences(members[k].netID)) = 2
           /\ members[k].points = 3
    /\ \E netID \in FormNetIDs :
           /\ ~MembersHas(members, netID)
           /\ \E q \in Processed : extractNetID(formResponses[q + 1].email) = netID

\* the text contains 'yes' in any mix of cases
ContainsYes(text) ==
    \E k \in 1..(Len(text) - 2) :
        /\ text[k] \in {"y", "Y"}
        /\ text[k + 1] \in {"e", "E"}
        /\ text[k + 2] \in {"s", "S"}

\* the first-processed credited submission of the netID
FirstCreditOf(netID) ==
    formResponses[credits[CHOOSE p \in CreditsOfNetID(netID) :
                              \A q \in CreditsOfNetID(netID) : p <= q].response + 1]

FetchedBy(h) == (CHOOSE e \in effects : e.handler = h /\ e.kind = "read").rows

\* the handler has ended a member-update in which an allowed role names the
\* Discord ID of a row that does not hold the capitalized name
RenamedByAllowedRole(h) ==
    /\ Handling(h, "done", "member-update")
    /\ isAllowedRole(handlers[h].interaction)
    /\ handlers[h].interaction.options.discord_id # NoOption
    /\ targetRowIndex(FetchedBy(h), handlers[h].interaction) # 0 - 1
    /\ FetchedBy(h)[targetRowIndex(FetchedBy(h), handlers[h].interaction) + 1][NAME + 1]
           # capitalize(handlers[h].interaction.options.name)

\* C27: a member-update of the member bot whose invoker holds an allowed role
\* and names the Discord ID of an existing member and a name that is not the
\* stored one ends with rows written in which that member's row holds the new
\* name, the points when they were given, and the timestamp of the update.
C27_RenameIsWritten ==
    \A h \in HandlerIds :
        RenamedByAllowedRole(h) =>
            LET interaction == handlers[h].interaction
                target == targetRowIndex(FetchedBy(h), interaction)
            IN  \E e \in effects :
                    /\ e.handler = h /\ e.kind = "write"
                    /\ e.rows[target + 1][NAME + 1] = capitalize(interaction.options.name)
                    /\ e.rows[target + 1][LAST_UPDATE + 1] = Now
                    /\ interaction.options.points.given =>
                           e.rows[target + 1][POINTS + 1] =
                               ToString(interaction.options.points.value)

\* the invoker holds a staff or an admin role, or an admin role
HoldsStaffOrAdminRole(roles) ==
    roles \cap {"Technical", "Membership", "Professional"} # {}
HoldsAdminRole(roles) == "Membership" \in roles

\* the level table of the commands
MayUse(commandName, roles) ==
    CASE commandName \in {"view-leaderboard", "show-point-system"} -> TRUE
      [] commandName \in {"add-event", "show-event-list", "get-attendance-qr"} ->
             HoldsStaffOrAdminRole(roles)
      [] commandName = "membership-logs" -> HoldsAdminRole(roles)

\* the handler was given a command
Invoked(h) == handlers[h].pc # "idle"

EventWrites(es) == {e \in es : e.kind = "write" /\ e.target = EVENTS_SHEET}

\* C26: the Event Codes sheet is written by handleAddEvent only for an invoker
\* with a staff or admin role whose date parses, whose start and end times
\* parse and whose end is strictly after its start, and the rows written are
\* the rows the handler fetched, in their order, followed by the one row
\* [date, start, end, name, type, code]; the sheet changes by such writes only.
C26_AddEventWritesOnlyWhenValid ==
    /\ [](\A e \in EventWrites(effects) :
              LET interaction == handlers[e.handler].interaction
                  options == interaction.options
              IN  /\ interaction.commandName = "add-event"
                  /\ HoldsStaffOrAdminRole(interaction.roles)
                  /\ parseDate(options.date) # NoParse
                  /\ parseTime(options.startTime) # NoParse
                  /\ parseTime(options.endTime) # NoParse
                  /\ MomentOf(parseTime(options.endTime))
                         > MomentOf(parseTime(options.startTime))
                  /\ e.rows = Append(FetchedBy(e.handler),
                                     <<parseDate(options.date),
                                       parseTime(options.startTime),
                                       parseTime(options.endTime), options.eventName,
                                       options.eventType, options.eventCode>>))
    /\ [][eventSheet' # eventSheet =>
              \E e \in EventWrites(effects') \ EventWrites(effects) :
                  eventSheet' = ValuesUpdate(eventSheet, e.rows)]_vars

\* an event was written and acknowledged, and one whose end is its start was
\* turned down
C26_Witness ==
    \E h \in HandlerIds, g \in HandlerIds :
        /\ Handling(h, "done", "add-event")
        /\ replies[h].content = EventAdded
        /\ \E e \in EventWrites(effects) : e.handler = h
        /\ Handling(g, "done", "add-event")
        /\ handlers[g].interaction.options.endTime = EndThreePm
        /\ replies[g].content = "End time must be after start time"

\* C30: when the handlers have finished, the Event Codes sheet holds, below its
\* header, the row of every add-event that replied with the success message,
\* whether or not the handlers overlapped.
C30_NoAcknowledgedEventLost ==
    (\A h \in HandlerIds : handlers[h].pc \in {"idle", "done"}) =>
        \A h \in HandlerIds :
            (handlers[h].interaction.commandName = "add-event"
                 /\ replies[h].content = EventAdded) =>
                \E k \in 2..Len(eventSheet) :
                    eventSheet[k] = <<parseDate(handlers[h].interaction.options.date),
                                      parseTime(handlers[h].interaction.options.startTime),
                                      parseTime(handlers[h].interaction.options.endTime),
                                      handlers[h].interaction.options.eventName,
                                      handlers[h].interaction.options.eventType,
                                      handlers[h].interaction.options.eventCode>>

\* the text is 'no' or 'false' in any case of letters, between any spaces
SaysNoOrFalse(cell) ==
    \E lo \in DOMAIN cell, hi \in DOMAIN cell :
        /\ \A k \in DOMAIN cell : (k < lo \/ k > hi) => cell[k] = " "
        /\ LET word == SubSeq(cell, lo, hi)
           IN  \/ /\ Len(word) = 2
                  /\ word[1] \in {"n", "N"} /\ word[2] \in {"o", "O"}
               \/ /\ Len(word) = 5
                  /\ word[1] \in {"f", "F"} /\ word[2] \in {"a", "A"}
                  /\ word[3] \in {"l", "L"} /\ word[4] \in {"s", "S"}
                  /\ word[5] \in {"e", "E"}

\* the rows of the record the leaderboard lists, and those of them whose
\* Anonymous cell is missing, empty or anything but 'no' and 'false'
ListedRows == {k \in 2..Len(recordSheet) : HasValidPoints(recordSheet[k])}
AnonymousRowsListed ==
    {k \in ListedRows : \/ Len(recordSheet[k]) < 4
                        \/ ~SaysNoOrFalse(recordSheet[k][4])}

\* C22: in the leaderboard reply the name of a row of the Points Record sheet
\* appears exactly when the Anonymous cell of the row is the text 'no' or
\* 'false' (in any case, trimmed); for every other cell, a missing or empty
\* one and 'Yes' among them, the name is not in the reply and the entry of the
\* row reads 'Anonymous'.
C22_AnonymousNeverNamed ==
    \A h \in HandlerIds :
        (Handling(h, "done", "view-leaderboard") /\ ListedRows # {}) =>
            LET shown == replies[h].names
            IN  /\ Len(shown) = Cardinality(ListedRows)
                /\ \A r \in ListedRows :
                       (r \notin AnonymousRowsListed) <=>
                           \E k \in DOMAIN shown :
                               shown[k].name = PadEnd(FullName(recordSheet[r]), 23)
                /\ Cardinality({k \in DOMAIN shown : shown[k].name = PadEnd(Anonymous, 23)})
                       = Cardinality(AnonymousRowsListed)

\* a reply that names the member whose cell is ' NO ' and hides the member
\* whose cell is empty
C22_Witness ==
    \E h \in HandlerIds :
        /\ Handling(h, "done", "view-leaderboard")
        /\ Len(recordSheet) = 3
        /\ recordSheet[2][4] = <<" ", "N", "O", " ">>
        /\ recordSheet[3][4] = << >>
        /\ replies[h].names =
               <<[name |-> PadEnd(Anonymous, 23), points |-> 5],
                 [name |-> PadEnd(<<"A", "n", "n", " ", "L", "e", "e">>, 23), points |-> 3]>>

====
